---- MODULE Spec2Model ----
(***************************************************************************)
(* Model of the kw-plugin core: the magic-keyword engine                   *)
(* (features/magic-keywords.ts), the configuration resolver                *)
(* (config/loader.ts) and the state store (state/manager.ts).  Strings     *)
(* are sequences of one-character strings; JavaScript values are tagged    *)
(* records; objects live in a heap so that reference identity and          *)
(* mutation are observable.  Each component has its own specification;     *)
(* the variables of the other components stay at their idle values.  The   *)
(* hook script (scripts/keyword-detector.mjs) drives the keyword engine.   *)
(***************************************************************************)
EXTENDS Integers, Sequences, FiniteSets, TLC

VARIABLES
    prompt,        \* processKeywords argument: the user's prompt text
    config,        \* processKeywords argument: PluginConfig or undefined
    file,          \* content of <pluginRoot>/keywords.json on disk
    heap,          \* allocated array elements (keyword records), by id
    pc,            \* position inside processKeywords
    baseKeywords,  \* const baseKeywords  (array reference + element ids)
    keywords,      \* const keywords      (array reference + element ids)
    sanitized,     \* const sanitized inside detectKeywords
    matches,       \* const matches       (sequence of element ids)
    payload,       \* value returned by processKeywords
    threw,         \* TRUE when an exception escaped processKeywords
    fileReads      \* number of filesystem accesses to keywords.json

VARIABLES
    objects,       \* configuration objects allocated so far, by id
    userFile,      \* ~/.config/kw-plugin/config.jsonc on disk
    projectFile,   \* <cwd>/.claude/kw-plugin.jsonc on disk
    env,           \* process.env: the two KW_PLUGIN_* variables
    loaderPc,      \* position inside loadConfig, or in a deepMerge call
    resolved,      \* let config  inside loadConfig (an object reference)
    raised,        \* TRUE when an exception escaped the loader
    loads,         \* number of loadConfig calls that have returned
    mergeBase,     \* deepMerge argument target, as written by the caller
    mergeLayer,    \* deepMerge argument source, as written by the caller
    mergeArgs,     \* the two arguments as object references
    mergeResults   \* values returned by the deepMerge calls so far

VARIABLES
    disk,          \* state files on disk: path -> text
    dirs,          \* state directories that exist
    readOnly,      \* locations whose directory rejects writes
    history,       \* the store operations performed, with their results
    workload,      \* the names, values and operations the callers use
    pending        \* per process: the updateState call between its two steps

VARIABLES
    stdin,         \* what the host pipes into keyword-detector.mjs
    hookPc,        \* position inside main() of the hook script
    stdout,        \* the lines the hook script has written
    imported       \* the compiled modules the script has imported

kwVars == <<prompt, config, file, heap, pc, baseKeywords, keywords,
            sanitized, matches, payload, threw, fileReads>>

loaderVars == <<objects, userFile, projectFile, env, loaderPc, resolved,
                raised, loads, mergeBase, mergeLayer, mergeArgs,
                mergeResults>>

storeVars == <<disk, dirs, readOnly, history, workload, pending>>

hookVars == <<stdin, hookPc, stdout, imported>>

vars == <<kwVars, loaderVars, storeVars, hookVars>>

-----------------------------------------------------------------------------
(* Characters and strings *)

LowerLetters == <<"a","b","c","d","e","f","g","h","i","j","k","l","m",
                  "n","o","p","q","r","s","t","u","v","w","x","y","z">>
UpperLetters == <<"A","B","C","D","E","F","G","H","I","J","K","L","M",
                  "N","O","P","Q","R","S","T","U","V","W","X","Y","Z">>
Digits == {"0","1","2","3","4","5","6","7","8","9"}

Range(f) == {f[i] : i \in DOMAIN f}

LowerSet == Range(LowerLetters)
UpperSet == Range(UpperLetters)

\* String.prototype.toUpperCase, one character
ToUpperChar(c) ==
    IF c \in LowerSet
    THEN UpperLetters[CHOOSE i \in 1..26 : LowerLetters[i] = c]
    ELSE c

\* String.prototype.toLowerCase, one character
ToLowerChar(c) ==
    IF c \in UpperSet
    THEN LowerLetters[CHOOSE i \in 1..26 : UpperLetters[i] = c]
    ELSE c

toUpperCase(s) == [i \in 1..Len(s) |-> ToUpperChar(s[i])]
toLowerCase(s) == [i \in 1..Len(s) |-> ToLowerChar(s[i])]

\* regex class \w
IsWordChar(c) == c \in LowerSet \cup UpperSet \cup Digits \cup {"_"}

\* regex class \s (the members that occur in the modelled alphabet)
IsSpaceChar(c) == c \in {" ", "\n", "\t", "\r"}

\* s has pat at index i
StartsWithAt(s, i, pat) ==
    /\ i >= 1
    /\ i + Len(pat) - 1 <= Len(s)
    /\ \A k \in 1..Len(pat) : s[i + k - 1] = pat[k]

Min(S) == CHOOSE x \in S : \A y \in S : x <= y
Max(S) == CHOOSE x \in S : \A y \in S : x >= y

RECURSIVE Flatten(_)
Flatten(ts) == IF ts = <<>> THEN <<>> ELSE Head(ts) \o Flatten(Tail(ts))

SeqsUpTo(S, n) == UNION {[1..k -> S] : k \in 0..n}

-----------------------------------------------------------------------------
(* sanitizePrompt: five global regex replacements by the empty string.     *)
(* Each XxxEnd(s, i) is the index of the last character of the match of    *)
(* the regex that starts at index i, or 0 when it does not match there.    *)

\* the backtick character (written as a named symbol)
Backtick == "BACKTICK"

Fence == <<Backtick, Backtick, Backtick>>

\* index of the first occurrence of pat at or after i, 0 if none
IndexOfFrom(s, pat, i) ==
    LET J == {j \in i..Len(s) : StartsWithAt(s, j, pat)}
    IN  IF J = {} THEN 0 ELSE Min(J)

\* fenced code block: three backticks, [\s\S]*? (lazy), three backticks
FenceEnd(s, i) ==
    IF ~StartsWithAt(s, i, Fence) THEN 0
    ELSE LET j == IndexOfFrom(s, Fence, i + 3)
         IN  IF j = 0 THEN 0 ELSE j + 2

\* inline code: backtick, [^backtick]+, backtick
InlineEnd(s, i) ==
    IF s[i] # Backtick THEN 0
    ELSE LET j == IndexOfFrom(s, <<Backtick>>, i + 1)
         IN  IF j >= i + 2 THEN j ELSE 0

\* last index of the maximal run of characters satisfying the class,
\* starting at i (i - 1 when s[i] is not in the class)
NonSpaceRunEnd(s, i) ==
    LET Stop == {j \in i..Len(s) : IsSpaceChar(s[j])}
    IN  IF Stop = {} THEN Len(s) ELSE Min(Stop) - 1

IsPathChar(c) == IsWordChar(c) \/ c \in {".", "-"}

PathRunEnd(s, i) ==
    LET Stop == {j \in i..Len(s) : ~IsPathChar(s[j])}
    IN  IF Stop = {} THEN Len(s) ELSE Min(Stop) - 1

\* /https?:\/\/\S+/   (no i flag: the scheme is matched case-sensitively)
UrlEnd(s, i) ==
    LET http  == <<"h","t","t","p">>
        sep   == <<":","/","/">>
        body  == IF StartsWithAt(s, i, http \o <<"s">> \o sep) THEN i + 8
                 ELSE IF StartsWithAt(s, i, http \o sep) THEN i + 7
                 ELSE 0
    IN  IF body = 0 \/ body > Len(s) \/ IsSpaceChar(s[body]) THEN 0
        ELSE NonSpaceRunEnd(s, body)

\* one segment \.?\/[\w.-]+ starting at i: index of its last character or 0
SegmentEnd(s, i) ==
    LET slash == IF StartsWithAt(s, i, <<".","/">>) THEN i + 1
                 ELSE IF StartsWithAt(s, i, <<"/">>) THEN i
                 ELSE 0
    IN  IF slash = 0 THEN 0
        ELSE IF slash + 1 > Len(s) \/ ~IsPathChar(s[slash + 1]) THEN 0
        ELSE PathRunEnd(s, slash + 1)

\* greedy repetition of segments from i: <<count, last index>>
RECURSIVE Segments(_, _, _, _)
Segments(s, i, n, last) ==
    LET e == IF i > Len(s) THEN 0 ELSE SegmentEnd(s, i)
    IN  IF e = 0 THEN <<n, last>> ELSE Segments(s, e + 1, n + 1, e)

\* /(?:\.?\/[\w.-]+){2,}/
PathEnd(s, i) ==
    LET r == Segments(s, i, 0, 0)
    IN  IF r[1] >= 2 THEN r[2] ELSE 0

\* /<[^>]+>/
TagEnd(s, i) ==
    IF s[i] # "<" THEN 0
    ELSE LET j == IndexOfFrom(s, <<">">>, i + 1)
         IN  IF j >= i + 2 THEN j ELSE 0

MatchEnd(rx, s, i) ==
    CASE rx = "fence"  -> FenceEnd(s, i)
      [] rx = "inline" -> InlineEnd(s, i)
      [] rx = "url"    -> UrlEnd(s, i)
      [] rx = "path"   -> PathEnd(s, i)
      [] rx = "tag"    -> TagEnd(s, i)

\* String.prototype.replace(/rx/g, ""): scan left to right, drop each match
RECURSIVE ReplaceAllFrom(_, _, _)
ReplaceAllFrom(rx, s, i) ==
    IF i > Len(s) THEN <<>>
    ELSE LET e == MatchEnd(rx, s, i)
         IN  IF e = 0 THEN <<s[i]>> \o ReplaceAllFrom(rx, s, i + 1)
             ELSE ReplaceAllFrom(rx, s, e + 1)

ReplaceAll(rx, s) == ReplaceAllFrom(rx, s, 1)

sanitizePrompt(p) ==
    ReplaceAll("tag",
      ReplaceAll("path",
        ReplaceAll("url",
          ReplaceAll("inline",
            ReplaceAll("fence", p)))))

-----------------------------------------------------------------------------
(* JavaScript values.  t is the type tag; s the characters of a string;    *)
(* a the elements of an array; n the number (booleans: 1 / 0).             *)

JUndef     == [t |-> "undefined", s |-> <<>>, a |-> <<>>, n |-> 0]
JNull      == [t |-> "null",      s |-> <<>>, a |-> <<>>, n |-> 0]
JStr(str)  == [t |-> "string",    s |-> str,  a |-> <<>>, n |-> 0]
JNum(k)    == [t |-> "number",    s |-> <<>>, a |-> <<>>, n |-> k]
JBool(b)   == [t |-> "boolean",   s |-> <<>>, a |-> <<>>, n |-> IF b THEN 1 ELSE 0]
JArr(els)  == [t |-> "array",     s |-> <<>>, a |-> els,  n |-> 0]
JFunction  == [t |-> "function",  s |-> <<>>, a |-> <<>>, n |-> 0]

\* ToBoolean
Truthy(v) ==
    CASE v.t \in {"undefined", "null"} -> FALSE
      [] v.t \in {"boolean", "number"} -> v.n # 0
      [] v.t = "string"                -> v.s # <<>>
      [] OTHER                         -> TRUE

\* an array of strings, from a sequence of character sequences
StrArr(strs) == JArr([i \in 1..Len(strs) |-> JStr(strs[i])])

\* a MagicKeyword object (src/shared/types), fields possibly undefined
Kw(name, triggers, priority, instruction, skill, skillArgs) ==
    [t |-> "object", name |-> name, triggers |-> triggers,
     priority |-> priority, instruction |-> instruction,
     skill |-> skill, skillArgs |-> skillArgs]

\* an array element that is not an object (null, a string, a number)
NonObject(tag) ==
    [t |-> tag, name |-> JUndef, triggers |-> JUndef, priority |-> 0,
     instruction |-> JUndef, skill |-> JUndef, skillArgs |-> JUndef]

\* property names every object inherits from Object.prototype
ObjectPrototypeKeys ==
    { <<"c","o","n","s","t","r","u","c","t","o","r">> }

\* ToPropertyKey of a keyword name
PropKey(v) ==
    IF v.t = "string" THEN v.s
    ELSE <<"u","n","d","e","f","i","n","e","d">>

\* overrides[key]: own property, else inherited, else undefined
GetProperty(obj, key) ==
    IF obj.t # "object" THEN JUndef
    ELSE IF key \in DOMAIN obj.m THEN obj.m[key]
    ELSE IF key \in ObjectPrototypeKeys THEN JFunction
    ELSE JUndef

\* the empty property map
NoProps == [k \in {} |-> JUndef]

-----------------------------------------------------------------------------
(* loadKeywordsFromFile: the parsed array, or [] on any failure *)

loadKeywordsFromFile(f) ==
    CASE f.kind = "missing"    -> <<>>      \* existsSync is false
      [] f.kind = "unreadable" -> <<>>      \* readFileSync throws, caught
      [] f.kind = "invalid"    -> <<>>      \* JSON.parse throws, caught
      [] f.kind = "nonarray"   -> <<>>      \* !Array.isArray(parsed)
      [] f.kind = "array"      -> f.items

\* filesystem calls made by loadKeywordsFromFile
loadKeywordsFsCalls(f) ==
    IF f.kind = "missing" THEN <<"existsSync">>
    ELSE <<"existsSync", "readFileSync">>

-----------------------------------------------------------------------------
(* buildTriggerRegex and RegExp.prototype.test *)

\* characters escaped by t.replace(/[.*+?^${}()|[\]\\]/g, "\\$&")
RegexSpecial ==
    {".", "*", "+", "?", "^", "$", "{", "}", "(", ")", "|", "[", "]", "\\"}

\* one trigger after escaping: a sequence of pattern atoms; esc marks a
\* character preceded by a backslash in the pattern source
EscapeTrigger(str) ==
    [i \in 1..Len(str) |-> [c |-> str[i], esc |-> str[i] \in RegexSpecial]]

\* the regex \b(?:t1|t2|...)\b with flag i, as its list of alternatives;
\* [].join("|") is the empty pattern, i.e. one empty alternative
buildTriggerRegex(triggers) ==
    IF Len(triggers.a) = 0 THEN << <<>> >>
    ELSE [i \in 1..Len(triggers.a) |-> EscapeTrigger(triggers.a[i].s)]

\* buildTriggerRegex raises a TypeError: triggers.map or t.replace missing
buildTriggerRegexThrows(triggers) ==
    \/ triggers.t # "array"
    \/ \E i \in 1..Len(triggers.a) : triggers.a[i].t # "string"

\* Canonicalize of the i flag (non-unicode): toUpperCase of the character
Canonicalize(c) == ToUpperChar(c)

\* a pattern atom against a character.  Escaped or ordinary characters are
\* literals; an unescaped "." is the wildcard (other unescaped operators
\* cannot occur in a pattern produced by EscapeTrigger).
AtomMatches(atom, ch) ==
    IF atom.c = "." /\ ~atom.esc
    THEN ch \notin {"\n", "\r"}
    ELSE Canonicalize(atom.c) = Canonicalize(ch)

AltMatchesAt(alt, s, i) ==
    /\ i + Len(alt) - 1 <= Len(s)
    /\ \A k \in 1..Len(alt) : AtomMatches(alt[k], s[i + k - 1])

IsWordAt(s, i) == i >= 1 /\ i <= Len(s) /\ IsWordChar(s[i])

\* variant: the pattern built without the \b assertions
IsWordBoundary_Omitted(s, i) == TRUE

\* the assertion \b at the position before index i
IsWordBoundary(s, i) == IsWordAt(s, i - 1) # IsWordAt(s, i)

\* regex.test(s)
RegexTest(alts, s) ==
    \E i \in 1..(Len(s) + 1) : \E k \in 1..Len(alts) :
        /\ IsWordBoundary(s, i)
        /\ AltMatchesAt(alts[k], s, i)
        /\ IsWordBoundary(s, i + Len(alts[k]))

-----------------------------------------------------------------------------
(* detectKeywords *)

\* variant: comparator with its operands swapped (descending order)
ComparePriority_Swapped(a, b) == b.priority - a.priority

\* comparator of matches.sort
ComparePriority(a, b) == a.priority - b.priority

\* Array.prototype.sort is stable: insert x after every element that does
\* not compare greater than it
RECURSIVE InsertSorted(_, _, _)
InsertSorted(h, sorted, x) ==
    IF sorted = <<>> THEN <<x>>
    ELSE IF ComparePriority(h[Head(sorted)], h[x]) > 0
         THEN <<x>> \o sorted
         ELSE <<Head(sorted)>> \o InsertSorted(h, Tail(sorted), x)

RECURSIVE SortFrom(_, _, _, _)
SortFrom(h, ids, i, acc) ==
    IF i > Len(ids) THEN acc
    ELSE SortFrom(h, ids, i + 1, InsertSorted(h, acc, ids[i]))

sortByPriority(h, ids) == SortFrom(h, ids, 1, <<>>)

\* the filter callback raises: kw is null/undefined, or buildTriggerRegex does
FilterThrows(kw) ==
    \/ kw.t \in {"null", "undefined"}
    \/ buildTriggerRegexThrows(kw.triggers)

\* keywords.filter(kw => buildTriggerRegex(kw.triggers).test(sanitized))
RECURSIVE FilterFrom(_, _, _, _)
FilterFrom(h, ids, text, i) ==
    IF i > Len(ids) THEN <<>>
    ELSE (IF RegexTest(buildTriggerRegex(h[ids[i]].triggers), text)
          THEN <<ids[i]>> ELSE <<>>) \o FilterFrom(h, ids, text, i + 1)

\* result: threw, the sanitized text, the matched element ids in order
detectKeywords(h, p, arr) ==
    LET text == sanitizePrompt(p)
    IN  IF \E i \in 1..Len(arr.items) : FilterThrows(h[arr.items[i]])
        THEN [threw |-> TRUE, sanitized |-> text, matches |-> <<>>]
        ELSE [threw |-> FALSE, sanitized |-> text,
              matches |-> sortByPriority(h, FilterFrom(h, arr.items, text, 1))]

-----------------------------------------------------------------------------
(* applyKeywordOverrides *)

\* the map callback for one element: the element id to put in the result
\* and the heap after a possible allocation of {...kw, triggers: custom}
OverrideOne(h, id, overrides) ==
    LET kw     == h[id]
        custom == GetProperty(overrides, PropKey(kw.name))
    IN  IF Truthy(custom)
        THEN [heap |-> Append(h, [kw EXCEPT !.triggers = custom]),
              id   |-> Len(h) + 1]
        ELSE [heap |-> h, id |-> id]

RECURSIVE MapOverrides(_, _, _, _, _)
MapOverrides(h, ids, overrides, i, out) ==
    IF i > Len(ids) THEN [heap |-> h, items |-> out]
    ELSE LET r == OverrideOne(h, ids[i], overrides)
         IN  MapOverrides(r.heap, ids, overrides, i + 1, Append(out, r.id))

\* result: threw, the heap afterwards, the returned array (ref + elements).
\* keywords.map allocates a new array: its reference is arr.ref + 1.
applyKeywordOverrides(h, arr, overrides) ==
    IF ~Truthy(overrides)
    THEN [threw |-> FALSE, heap |-> h, arr |-> arr]
    ELSE IF \E i \in 1..Len(arr.items) :
                h[arr.items[i]].t \in {"null", "undefined"}
         THEN [threw |-> TRUE, heap |-> h, arr |-> arr]
         ELSE LET r == MapOverrides(h, arr.items, overrides, 1, <<>>)
              IN  [threw |-> FALSE, heap |-> r.heap,
                   arr |-> [ref |-> arr.ref + 1, items |-> r.items]]

-----------------------------------------------------------------------------
(* buildKeywordOutput.  additionalContext is lines.join("\n"); it is kept  *)
(* as the sequence of lines, each line as the template it was produced     *)
(* from (k) and the text interpolated into it (v).                         *)

Line(k, v) == [k |-> k, v |-> v]

Blank == Line("blank", <<>>)

RECURSIVE JoinWith(_, _)
JoinWith(strs, sep) ==
    IF strs = <<>> THEN <<>>
    ELSE IF Len(strs) = 1 THEN Head(strs)
    ELSE Head(strs) \o sep \o JoinWith(Tail(strs), sep)

\* "Skill: ..." and "Arguments: ..." lines of one keyword
SkillLines(kw) ==
    IF Truthy(kw.skill)
    THEN <<Line("Skill: ", kw.skill.s)>> \o
         (IF Truthy(kw.skillArgs)
          THEN <<Line("Arguments: ", kw.skillArgs.s)>> ELSE <<>>)
    ELSE <<>>

\* variant: the skill block emitted without testing kw.skill
SingleLines_AlwaysSkill(kw) ==
    << Line("[MAGIC KEYWORD: ]", toUpperCase(kw.name.s)),
       Blank,
       Line("instruction", kw.instruction.s),
       Blank,
       Line("Skill: ", kw.skill.s) >> \o
    (IF Truthy(kw.skillArgs)
     THEN <<Line("Arguments: ", kw.skillArgs.s)>> ELSE <<>>) \o
    <<Blank,
      Line("IMPORTANT: Invoke the skill IMMEDIATELY using the Skill tool.", <<>>)>>

\* matchedKeywords.length === 1
SingleLines(kw) ==
    << Line("[MAGIC KEYWORD: ]", toUpperCase(kw.name.s)),
       Blank,
       Line("instruction", kw.instruction.s) >> \o
    (IF Truthy(kw.skill)
     THEN <<Blank>> \o SkillLines(kw) \o
          <<Blank,
            Line("IMPORTANT: Invoke the skill IMMEDIATELY using the Skill tool.", <<>>)>>
     ELSE <<>>)

\* the subsection of one keyword in the multi-match branch
Subsection(kw) ==
    << Blank,
       Line("### ", toUpperCase(kw.name.s)),
       Line("instruction", kw.instruction.s) >> \o SkillLines(kw)

RECURSIVE Subsections(_, _, _)
Subsections(h, ids, i) ==
    IF i > Len(ids) THEN <<>>
    ELSE Subsection(h[ids[i]]) \o Subsections(h, ids, i + 1)

\* variant: the invoke-all directive appended without testing for a skill
MultiLines_AlwaysDirective(h, ids) ==
    LET names == [i \in 1..Len(ids) |-> toUpperCase(h[ids[i]].name.s)]
    IN  << Line("[MAGIC KEYWORDS: ]", JoinWith(names, <<",", " ">>)) >> \o
        Subsections(h, ids, 1) \o
        <<Blank,
          Line("IMPORTANT: Invoke all skills listed above using the Skill tool.", <<>>)>>

\* matchedKeywords.length > 1
MultiLines(h, ids) ==
    LET names == [i \in 1..Len(ids) |-> toUpperCase(h[ids[i]].name.s)]
    IN  << Line("[MAGIC KEYWORDS: ]", JoinWith(names, <<",", " ">>)) >> \o
        Subsections(h, ids, 1) \o
        (IF \E i \in 1..Len(ids) : Truthy(h[ids[i]].skill)
         THEN <<Blank,
                Line("IMPORTANT: Invoke all skills listed above using the Skill tool.", <<>>)>>
         ELSE <<>>)

\* the payload without side-channel content
NoOpPayload == [continue |-> TRUE]

\* variant: without the early return for an empty match list
buildKeywordOutput_NoEarlyReturn(h, ids) ==
    IF \E i \in 1..Len(ids) : h[ids[i]].name.t # "string"
    THEN [threw |-> TRUE, payload |-> NoOpPayload]
    ELSE [threw |-> FALSE,
          payload |->
            [continue |-> TRUE,
             hookSpecificOutput |->
               [hookEventName |-> "UserPromptSubmit",
                additionalContext |->
                  IF Len(ids) = 1 THEN SingleLines(h[ids[1]])
                  ELSE MultiLines(h, ids)]]]

\* result: threw (kw.name.toUpperCase on a non-string), payload
buildKeywordOutput(h, ids) ==
    IF Len(ids) = 0 THEN [threw |-> FALSE, payload |-> NoOpPayload]
    ELSE IF \E i \in 1..Len(ids) : h[ids[i]].name.t # "string"
    THEN [threw |-> TRUE, payload |-> NoOpPayload]
    ELSE [threw |-> FALSE,
          payload |->
            [continue |-> TRUE,
             hookSpecificOutput |->
               [hookEventName |-> "UserPromptSubmit",
                additionalContext |->
                  IF Len(ids) = 1 THEN SingleLines(h[ids[1]])
                  ELSE MultiLines(h, ids)]]]

-----------------------------------------------------------------------------
(* PluginConfig as seen by processKeywords *)

UndefinedObject == [t |-> "undefined", m |-> NoProps]
NullObject      == [t |-> "null", m |-> NoProps]
Object(m)       == [t |-> "object", m |-> m]

Features(flag)  == [t |-> "object", magicKeywords |-> flag]
NoFeatures      == [t |-> "undefined", magicKeywords |-> JUndef]

ConfigUndefined ==
    [t |-> "undefined", features |-> NoFeatures, magicKeywords |-> UndefinedObject]
ConfigObject(features, overrides) ==
    [t |-> "object", features |-> features, magicKeywords |-> overrides]

\* config?.features?.magicKeywords === false
FeatureDisabled(cfg) ==
    /\ cfg.t = "object"
    /\ cfg.features.t = "object"
    /\ cfg.features.magicKeywords.t = "boolean"
    /\ cfg.features.magicKeywords.n = 0

\* config?.magicKeywords
ConfigOverrides(cfg) ==
    IF cfg.t = "object" THEN cfg.magicKeywords ELSE UndefinedObject

-----------------------------------------------------------------------------
(* Bounded inputs *)

MaxFenceTokens  == 5   \* tokens per prompt, code-fence family
MaxMarkupTokens == 4   \* tokens per prompt, URL / path / tag family
MaxTableLen     == 3   \* keywords per table, ordering family
MaxFileItems    == 2   \* array elements per keywords.json, robustness family
MaxLiteralTokens == 3  \* tokens per prompt, literal-trigger family

S_cr   == <<"c","r">>
S_pr   == <<"p","r">>
S_r    == <<"r">>
S_lgtm == <<"l","g","t","m">>
S_c_p  == <<"c"," ","p">>
S_http == <<"h","t","t","p",":","/","/">>
S_cpp  == <<"c","+","+">>

N_review      == <<"r","e","v","i","e","w">>
N_pr          == <<"p","r">>
N_thorough    == <<"t","h","o","r","o","u","g","h">>
N_ship        == <<"s","h","i","p">>
N_constructor == <<"c","o","n","s","t","r","u","c","t","o","r">>
N_cpp         == <<"c","p","p">>

KwReview ==
    Kw(JStr(N_review), StrArr(<<S_cr>>), 1, JStr(<<"Do a code review.">>),
       JStr(<<"kw-plugin:review-code">>), JStr(<<"1">>))
KwPr ==
    Kw(JStr(N_pr), StrArr(<<S_pr, S_c_p>>), 2, JStr(<<"Create a PR.">>),
       JStr(<<"kw-plugin:create-pr">>), JUndef)
KwThorough ==
    Kw(JStr(N_thorough), StrArr(<<S_r>>), 10, JStr(<<"Be thorough.">>),
       JUndef, JUndef)
KwShip ==
    Kw(JStr(N_ship), StrArr(<<S_lgtm>>), 10, JStr(<<"Move fast.">>),
       JUndef, JUndef)
KwConstructor ==
    Kw(JStr(N_constructor), StrArr(<<S_pr>>), 3, JStr(<<"Build it.">>),
       JUndef, JUndef)

KwCpp ==
    Kw(JStr(N_cpp), StrArr(<<S_cpp>>), 5, JStr(<<"Write C++.">>),
       JUndef, JUndef)

\* elements of a keywords.json array that are not MagicKeyword records
KwNoTriggers   == [KwReview EXCEPT !.triggers = JUndef]
KwStrTriggers  == [KwReview EXCEPT !.triggers = JStr(S_cr)]
KwNumTrigger   == [KwReview EXCEPT !.triggers = JArr(<<JNum(5)>>)]
KwNoName       == [KwReview EXCEPT !.name = JUndef]
KwNoTriggerList == [KwThorough EXCEPT !.triggers = JArr(<<>>)]

WellFormedPool == {KwReview, KwPr, KwThorough, KwShip}

ItemPool ==
    {KwReview, KwThorough, KwConstructor, KwNoTriggers, KwStrTriggers,
     KwNumTrigger, KwNoName, KwNoTriggerList, NonObject("null")}

ArrayFile(items) == [kind |-> "array", items |-> items]
OtherFile(kind)  == [kind |-> kind, items |-> <<>>]

FailingFiles ==
    {OtherFile(k) : k \in {"missing", "unreadable", "invalid", "nonarray"}}

FenceTokens  == {S_cr, <<"c">>, <<"r">>, <<" ">>, Fence}
MarkupTokens == {S_cr, <<" ">>, S_http, <<"/">>, <<"<">>, <<">">>, <<Backtick>>}

LiteralTokens == {S_cpp, <<"c">>, <<"+">>, <<" ">>, <<"x">>}

LiteralPrompts ==
    {Flatten(ts) : ts \in SeqsUpTo(LiteralTokens, MaxLiteralTokens)}

FencePrompts  == {Flatten(ts) : ts \in SeqsUpTo(FenceTokens, MaxFenceTokens)}
MarkupPrompts == {Flatten(ts) : ts \in SeqsUpTo(MarkupTokens, MaxMarkupTokens)}

\* prompts naming a chosen subset of the pool's triggers, space-separated
RECURSIVE Mention(_, _)
Mention(ws, pick) ==
    IF ws = <<>> THEN <<>>
    ELSE (IF Head(ws) \in pick THEN Head(ws) \o <<" ">> ELSE <<>>)
         \o Mention(Tail(ws), pick)

OrderPrompts ==
    {Mention(<<S_lgtm, S_r, S_pr, S_cr>>, pick) :
        pick \in SUBSET {S_lgtm, S_r, S_pr, S_cr}}

\* sequences without repetition
Distinct(q) == \A i, j \in 1..Len(q) : i # j => q[i] # q[j]

OrderTables ==
    {q \in SeqsUpTo(WellFormedPool, MaxTableLen) : Len(q) >= 1 /\ Distinct(q)}

RobustFiles ==
    FailingFiles \cup
    {ArrayFile(q) : q \in SeqsUpTo(ItemPool, MaxFileItems)}

OverrideMaps ==
    { NoProps,
      (N_review :> StrArr(<<S_pr>>)),
      (N_review :> StrArr(<<S_pr>>)) @@ (N_thorough :> StrArr(<<S_cr, S_r>>)),
      (N_ship :> StrArr(<<S_cr>>)),
      (N_review :> JArr(<<>>)),
      (N_review :> JStr(S_pr)),
      (N_review :> JNull),
      (N_review :> JArr(<<JNum(5)>>)) }

RobustConfigs ==
    {ConfigUndefined} \cup
    {ConfigObject(f, o) :
        f \in {NoFeatures, Features(JUndef), Features(JBool(TRUE)),
               Features(JBool(FALSE))},
        o \in {UndefinedObject} \cup {Object(m) : m \in OverrideMaps}}

RobustPrompts == {S_cr, S_pr \o <<" ">> \o S_r, <<"x">>}

\* the four input families: (prompt, config, file)
Inputs ==
    ((FencePrompts \cup MarkupPrompts)
        \X {ConfigUndefined} \X {ArrayFile(<<KwThorough, KwReview>>)})
    \cup (LiteralPrompts \X {ConfigUndefined} \X {ArrayFile(<<KwCpp>>)})
    \cup (OrderPrompts \X {ConfigUndefined} \X {ArrayFile(q) : q \in OrderTables})
    \cup (RobustPrompts \X RobustConfigs \X RobustFiles)

-----------------------------------------------------------------------------
(* processKeywords as a forward pipeline *)

NoPayload == [pending |-> TRUE]
NoArray   == [ref |-> 0, items |-> <<>>]

\* no processKeywords call is in progress
KwIdle ==
    /\ prompt = <<>>
    /\ config = ConfigUndefined
    /\ file = OtherFile("missing")
    /\ heap = <<>>
    /\ pc = "idle"
    /\ baseKeywords = NoArray
    /\ keywords = NoArray
    /\ sanitized = <<>>
    /\ matches = <<>>
    /\ payload = NoPayload
    /\ threw = FALSE
    /\ fileReads = <<>>

\* no loadConfig or deepMerge call is in progress
LoaderIdle ==
    /\ objects = <<>>
    /\ userFile = [kind |-> "absent", value |-> JUndef, errors |-> FALSE]
    /\ projectFile = [kind |-> "absent", value |-> JUndef, errors |-> FALSE]
    /\ env = [KW_PLUGIN_SESSION_CONTEXT |-> JUndef,
              KW_PLUGIN_MAX_BACKGROUND_TASKS |-> JUndef]
    /\ loaderPc = "idle"
    /\ resolved = JUndef
    /\ raised = FALSE
    /\ loads = 0
    /\ mergeBase = JUndef
    /\ mergeLayer = JUndef
    /\ mergeArgs = <<>>
    /\ mergeResults = <<>>

\* the state store is not in use
StoreIdle ==
    /\ disk = <<>>
    /\ dirs = {}
    /\ readOnly = {}
    /\ history = <<>>
    /\ workload = <<>>
    /\ pending = <<>>

\* the hook script is not running
HookIdle ==
    /\ stdin = <<>>
    /\ hookPc = "idle"
    /\ stdout = <<>>
    /\ imported = {}

Init ==
    /\ \E in \in Inputs :
         /\ prompt = in[1]
         /\ config = in[2]
         /\ file   = in[3]
    /\ heap = <<>>
    /\ pc = "gate"
    /\ baseKeywords = NoArray
    /\ keywords = NoArray
    /\ sanitized = <<>>
    /\ matches = <<>>
    /\ payload = NoPayload
    /\ threw = FALSE
    /\ fileReads = <<>>
    /\ LoaderIdle
    /\ StoreIdle
    /\ HookIdle

\* variant: the keyword file is loaded before the feature toggle is tested
Gate_AfterLoad ==
    /\ pc = "gate"
    /\ fileReads' = fileReads \o loadKeywordsFsCalls(file)
    /\ IF FeatureDisabled(config)
       THEN /\ payload' = NoOpPayload
            /\ pc' = "done"
       ELSE /\ pc' = "load"
            /\ UNCHANGED payload
    /\ UNCHANGED <<prompt, config, file, heap, baseKeywords, keywords,
                   sanitized, matches, threw>>
    /\ UNCHANGED <<loaderVars, storeVars, hookVars>>

\* if (config?.features?.magicKeywords === false) return { continue: true }
Gate ==
    /\ pc = "gate"
    /\ IF FeatureDisabled(config)
       THEN /\ payload' = NoOpPayload
            /\ pc' = "done"
       ELSE /\ pc' = "load"
            /\ UNCHANGED payload
    /\ UNCHANGED <<prompt, config, file, heap, baseKeywords, keywords,
                   sanitized, matches, threw, fileReads>>
    /\ UNCHANGED <<loaderVars, storeVars, hookVars>>

\* const baseKeywords = loadKeywords(root);
\* if (baseKeywords.length === 0) return { continue: true }
Load ==
    /\ pc = "load"
    /\ LET items == loadKeywordsFromFile(file)
       IN  /\ heap' = items
           /\ baseKeywords' = [ref |-> 1, items |-> [i \in 1..Len(items) |-> i]]
           /\ IF Len(items) = 0
              THEN /\ payload' = NoOpPayload
                   /\ pc' = "done"
              ELSE /\ pc' = "override"
                   /\ UNCHANGED payload
    /\ fileReads' = fileReads \o loadKeywordsFsCalls(file)
    /\ UNCHANGED <<prompt, config, file, keywords, sanitized, matches, threw>>
    /\ UNCHANGED <<loaderVars, storeVars, hookVars>>

\* const keywords = applyKeywordOverrides(baseKeywords, config?.magicKeywords)
Override ==
    /\ pc = "override"
    /\ LET r == applyKeywordOverrides(heap, baseKeywords, ConfigOverrides(config))
       IN  IF r.threw
           THEN /\ threw' = TRUE
                /\ pc' = "done"
                /\ UNCHANGED <<heap, keywords>>
           ELSE /\ heap' = r.heap
                /\ keywords' = r.arr
                /\ pc' = "detect"
                /\ UNCHANGED threw
    /\ UNCHANGED <<prompt, config, file, baseKeywords, sanitized, matches,
                   payload, fileReads>>
    /\ UNCHANGED <<loaderVars, storeVars, hookVars>>

\* const matches = detectKeywords(prompt, keywords)
Detect ==
    /\ pc = "detect"
    /\ LET r == detectKeywords(heap, prompt, keywords)
       IN  /\ sanitized' = r.sanitized
           /\ matches' = r.matches
           /\ threw' = r.threw
           /\ pc' = IF r.threw THEN "done" ELSE "build"
    /\ UNCHANGED <<prompt, config, file, heap, baseKeywords, keywords,
                   payload, fileReads>>
    /\ UNCHANGED <<loaderVars, storeVars, hookVars>>

\* return buildKeywordOutput(matches)
Build ==
    /\ pc = "build"
    /\ LET r == buildKeywordOutput(heap, matches)
       IN  /\ threw' = r.threw
           /\ payload' = IF r.threw THEN payload ELSE r.payload
           /\ pc' = "done"
    /\ UNCHANGED <<prompt, config, file, heap, baseKeywords, keywords,
                   sanitized, matches, fileReads>>
    /\ UNCHANGED <<loaderVars, storeVars, hookVars>>

Next == Gate \/ Load \/ Override \/ Detect \/ Build

Spec == Init /\ [][Next]_vars

-----------------------------------------------------------------------------
(* Configuration values.  A value written in a file or passed by a caller  *)
(* is a tree: a leaf (JNum, JStr, ...) or Object(m) with m a map from      *)
(* property names to trees.  At run time an object is a reference JRef(id) *)
(* into the variable objects, whose entry id is the map of its own         *)
(* properties, so that a write to one object is seen through every         *)
(* reference to it.                                                        *)

JRef(id) == [t |-> "object", s |-> <<>>, a |-> <<>>, n |-> id]

\* result[key] = value
SetProperty(h, id, key, value) == [h EXCEPT ![id] = (key :> value) @@ @]

\* the objects a literal or a parse creates, innermost last
RECURSIVE Alloc(_, _), AllocProps(_, _, _, _)
Alloc(h, tree) ==
    IF tree.t = "object"
    THEN LET id == Len(h) + 1
         IN  [heap |-> AllocProps(Append(h, NoProps), id, tree.m, DOMAIN tree.m),
              v |-> JRef(id)]
    ELSE [heap |-> h, v |-> tree]

AllocProps(h, id, m, keys) ==
    IF keys = {} THEN h
    ELSE LET key == CHOOSE k \in keys : TRUE
             c   == Alloc(h, m[key])
         IN  AllocProps(SetProperty(c.heap, id, key, c.v), id, m, keys \ {key})

\* the tree a value stands for: what a deep comparison looks at
RECURSIVE Tree(_, _)
Tree(h, v) ==
    IF v.t = "object"
    THEN Object([key \in DOMAIN h[v.n] |-> Tree(h, h[v.n][key])])
    ELSE v

\* the keys "0", "1", ... of the characters of a string and of the
\* elements of an array
IndexKeys == <<"0", "1", "2">>

\* Object.keys(source) for a value that is not null or undefined
OwnKeys(h, v) ==
    CASE v.t = "object" -> DOMAIN h[v.n]
      [] v.t = "string" -> {IndexKeys[i] : i \in 1..Len(v.s)}
      [] v.t = "array"  -> {IndexKeys[i] : i \in 1..Len(v.a)}
      [] OTHER          -> {}

\* source[key] and result[key] for an own key, undefined otherwise
Get(h, v, key) ==
    IF key \notin OwnKeys(h, v) THEN JUndef
    ELSE CASE v.t = "object" -> h[v.n][key]
           [] v.t = "string" ->
                JStr(<<v.s[CHOOSE i \in 1..Len(v.s) : IndexKeys[i] = key]>>)
           [] v.t = "array"  ->
                v.a[CHOOSE i \in 1..Len(v.a) : IndexKeys[i] = key]

-----------------------------------------------------------------------------
(* deepMerge *)

\* variant: const result = target
SpreadCopy_Alias(h, target) == [heap |-> h, v |-> target]

\* const result = { ...target }
SpreadCopy(h, target) ==
    [heap |-> Append(h, h[target.n]), v |-> JRef(Len(h) + 1)]

\* variant: no value is merged recursively
IsMergeable_Never(sourceValue, targetValue) == FALSE

\* both values are objects, not null and not arrays
IsMergeable(sourceValue, targetValue) ==
    sourceValue.t = "object" /\ targetValue.t = "object"

\* result: threw (Object.keys of null or undefined), heap, v
RECURSIVE deepMerge(_, _, _), MergeKeys(_, _, _, _)

\* for (const key of Object.keys(source)) { ... }
MergeKeys(h, result, source, keys) ==
    IF keys = {} THEN h
    ELSE LET key         == CHOOSE k \in keys : TRUE
             sourceValue == Get(h, source, key)
             targetValue == Get(h, result, key)
             h1 == IF IsMergeable(sourceValue, targetValue)
                   THEN LET r == deepMerge(h, targetValue, sourceValue)
                        IN  SetProperty(r.heap, result.n, key, r.v)
                   ELSE IF sourceValue.t # "undefined"
                   THEN SetProperty(h, result.n, key, sourceValue)
                   ELSE h
         IN  MergeKeys(h1, result, source, keys \ {key})

deepMerge(h, target, source) ==
    IF source.t \in {"undefined", "null"}
    THEN [threw |-> TRUE, heap |-> h, v |-> JUndef]
    ELSE LET c == SpreadCopy(h, target)
         IN  [threw |-> FALSE,
              heap  |-> MergeKeys(c.heap, c.v, source, OwnKeys(h, source)),
              v     |-> c.v]

-----------------------------------------------------------------------------
(* loadJsoncFile, loadEnvConfig, loadConfig *)

DEFAULT_CONFIG ==
    Object([features |->
               Object([sessionStartContext |-> JBool(TRUE),
                       magicKeywords |-> JBool(TRUE)]),
            permissions |->
               Object([maxBackgroundTasks |-> JNum(5)])])

\* the module-level constant, allocated when the module is loaded
DefaultObjects == Alloc(<<>>, DEFAULT_CONFIG).heap
DefaultsRef    == Alloc(<<>>, DEFAULT_CONFIG).v

\* a config file on disk: absent, unreadable, or with a content for which
\* jsonc.parse returns value and reports parse errors or not
AbsentFile     == [kind |-> "absent", value |-> JUndef, errors |-> FALSE]
UnreadableFile == [kind |-> "unreadable", value |-> JUndef, errors |-> FALSE]
ContentFile(value, errors) ==
    [kind |-> "content", value |-> value, errors |-> errors]

\* result: heap, v (the parsed value, or null)
loadJsoncFile(h, f) ==
    IF f.kind = "absent" THEN [heap |-> h, v |-> JNull]   \* !existsSync(path)
    ELSE IF f.kind = "unreadable"
    THEN [heap |-> h, v |-> JNull]      \* readFileSync throws, caught
    ELSE Alloc(h, f.value)              \* errors are only warned about

DigitChars == <<"0", "1", "2", "3", "4", "5", "6", "7", "8", "9">>

DigitValue(c) == (CHOOSE d \in 1..Len(DigitChars) : DigitChars[d] = c) - 1

RECURSIVE Decimal(_)
Decimal(ds) ==
    IF ds = <<>> THEN 0
    ELSE 10 * Decimal(SubSeq(ds, 1, Len(ds) - 1)) + DigitValue(ds[Len(ds)])

\* parseInt(str, 10): leading white space, an optional sign, then the
\* longest run of digits; NaN when that run is empty
parseInt(str) ==
    LET nonSpace == {k \in 1..Len(str) : ~IsSpaceChar(str[k])}
        i == IF nonSpace = {} THEN Len(str) + 1 ELSE Min(nonSpace)
        signed == i <= Len(str) /\ str[i] \in {"+", "-"}
        j == IF signed THEN i + 1 ELSE i
        nonDigit == {k \in j..Len(str) : str[k] \notin Digits}
        e == IF nonDigit = {} THEN Len(str) + 1 ELSE Min(nonDigit)
        magnitude == Decimal(SubSeq(str, j, e - 1))
    IN  IF e = j THEN [nan |-> TRUE, n |-> 0]
        ELSE [nan |-> FALSE,
              n |-> IF signed /\ str[i] = "-" THEN 0 - magnitude ELSE magnitude]

\* variant: sessionContext is tested for truthiness
SessionContextValue_Truthy(sessionContext) == sessionContext # <<>>

\* sessionContext === 'true'
SessionContextValue(sessionContext) == sessionContext = <<"t", "r", "u", "e">>

\* result: heap, v (the object built from the environment)
loadEnvConfig(h, e) ==
    LET sessionContext == e.KW_PLUGIN_SESSION_CONTEXT
        maxTasks       == e.KW_PLUGIN_MAX_BACKGROUND_TASKS
        parsed         == parseInt(maxTasks.s)
        features ==
            IF sessionContext.t # "undefined"
            THEN "features" :>
                   Object("sessionStartContext" :>
                            JBool(SessionContextValue(sessionContext.s)))
            ELSE NoProps
        permissions ==
            IF maxTasks.t # "undefined" /\ ~parsed.nan
            THEN "permissions" :>
                   Object("maxBackgroundTasks" :> JNum(parsed.n))
            ELSE NoProps
    IN  Alloc(h, Object(features @@ permissions))

\* variant: every loaded value is merged
ShouldMerge_Always(v) == TRUE

\* if (userConfig) / if (projectConfig)
ShouldMerge(v) == Truthy(v)

\* variant: the project file is read for both file layers
getConfigPaths_ProjectOnly == [user |-> projectFile, project |-> projectFile]

\* the file each of the two paths leads to
getConfigPaths == [user |-> userFile, project |-> projectFile]

\* let config = { ...DEFAULT_CONFIG }
CopyDefaults(h) ==
    LET c == SpreadCopy(h, DefaultsRef)
    IN  [heap |-> c.heap, config |-> c.v, threw |-> FALSE]

\* const x = loadJsoncFile(path); if (x) { config = deepMerge(config, x) }
MergeFile(st, f) ==
    IF st.threw THEN st
    ELSE LET l == loadJsoncFile(st.heap, f)
         IN  IF ShouldMerge(l.v)
             THEN LET r == deepMerge(l.heap, st.config, l.v)
                  IN  [heap   |-> r.heap,
                       config |-> IF r.threw THEN st.config ELSE r.v,
                       threw  |-> r.threw]
             ELSE [st EXCEPT !.heap = l.heap]

\* const envConfig = loadEnvConfig();
\* if (Object.keys(envConfig).length > 0) { config = deepMerge(...) }
MergeEnv(st, e) ==
    IF st.threw THEN st
    ELSE LET l == loadEnvConfig(st.heap, e)
         IN  IF OwnKeys(l.heap, l.v) # {}
             THEN LET r == deepMerge(l.heap, st.config, l.v)
                  IN  [heap   |-> r.heap,
                       config |-> IF r.threw THEN st.config ELSE r.v,
                       threw  |-> r.threw]
             ELSE [st EXCEPT !.heap = l.heap]

\* loadConfig as one function of the two files and the environment
loadConfig(h, uf, pf, e) ==
    MergeEnv(MergeFile(MergeFile(CopyDefaults(h), uf), pf), e)

-----------------------------------------------------------------------------
(* Bounded inputs of the loader *)

MaxLoads  == 2   \* loadConfig calls in one run
MaxMerges == 2   \* deepMerge calls on the same arguments

Section(name, field, value) == Object(name :> Object(field :> value))

\* file contents that follow the PluginConfig schema
TypedFileValues ==
    { Object(NoProps),
      Section("features", "sessionStartContext", JBool(FALSE)),
      Section("features", "sessionStartContext", JBool(TRUE)),
      Object(("features" :> Object("magicKeywords" :> JBool(FALSE))) @@
             ("permissions" :> Object("maxBackgroundTasks" :> JNum(9)))),
      Section("magicKeywords", "review", StrArr(<<S_cr>>)) }

\* file contents that parse without errors to something else: an empty
\* file, null, a string, numbers, an array, sections that are not objects
UntypedFileValues ==
    { JUndef, JNull, JStr(<<"a", "b">>), JNum(7), JNum(0),
      JArr(<<JNum(1)>>),
      Object("features" :> JNull),
      Object("permissions" :> JArr(<<JNum(1)>>)) }

\* what jsonc.parse recovers from a content with syntax errors
RecoveredValues ==
    { JUndef,
      Section("features", "sessionStartContext", JBool(FALSE)),
      Object(("features" :> Object("magicKeywords" :> JBool(FALSE))) @@
             ("permissions" :> Object("maxBackgroundTasks" :> JNum(9)))) }

FileStates ==
    {AbsentFile, UnreadableFile}
    \cup {ContentFile(v, FALSE) : v \in TypedFileValues \cup UntypedFileValues}
    \cup {ContentFile(v, TRUE) : v \in RecoveredValues}

EnvStates ==
    [KW_PLUGIN_SESSION_CONTEXT :
        {JUndef, JStr(<<"t","r","u","e">>), JStr(<<"f","a","l","s","e">>),
         JStr(<<"T","R","U","E">>), JStr(<<>>)},
     KW_PLUGIN_MAX_BACKGROUND_TASKS :
        {JUndef, JStr(<<"1","0">>), JStr(<<"x">>), JStr(<<"1","2","p","x">>),
         JStr(<<" ","7">>), JStr(<<"-","3">>), JStr(<<>>)}]

\* maps from some of the keys to the values
Maps(keys, values) == UNION {[d -> values] : d \in SUBSET keys}

BaseLeaves  == {JNum(1), JNull, JArr(<<JNum(3)>>)}
LayerLeaves == {JNum(2), JNull, JArr(<<JNum(4)>>), JUndef}

BaseInner ==
    {Object(m) : m \in Maps({"x", "y"}, BaseLeaves \cup {Object("z" :> JNum(1))})}
LayerInner ==
    {Object(m) : m \in Maps({"x", "y"}, LayerLeaves \cup {Object("w" :> JNum(2))})}

\* objects of nesting depth up to three under the key a
MergeBases ==
    {Object(ma @@ mb) :
        ma \in Maps({"a"}, BaseLeaves \cup BaseInner),
        mb \in Maps({"b"}, BaseLeaves)}
MergeLayers ==
    {Object(ma @@ mb) :
        ma \in Maps({"a"}, LayerLeaves \cup LayerInner),
        mb \in Maps({"b"}, LayerLeaves)}

-----------------------------------------------------------------------------
(* loadConfig as a forward pipeline, and direct deepMerge calls *)

\* a loadConfig call is about to start
LoadInit ==
    /\ objects = DefaultObjects
    /\ userFile \in FileStates
    /\ projectFile \in FileStates
    /\ env \in EnvStates
    /\ loaderPc = "start"
    /\ resolved = JUndef
    /\ raised = FALSE
    /\ loads = 0
    /\ mergeBase = JUndef
    /\ mergeLayer = JUndef
    /\ mergeArgs = <<>>
    /\ mergeResults = <<>>

\* a caller holds two object literals and is about to call deepMerge
MergeInit ==
    /\ mergeBase \in MergeBases
    /\ mergeLayer \in MergeLayers
    /\ LET b == Alloc(DefaultObjects, mergeBase)
           l == Alloc(b.heap, mergeLayer)
       IN  /\ objects = l.heap
           /\ mergeArgs = <<b.v, l.v>>
    /\ userFile = AbsentFile
    /\ projectFile = AbsentFile
    /\ env = [KW_PLUGIN_SESSION_CONTEXT |-> JUndef,
              KW_PLUGIN_MAX_BACKGROUND_TASKS |-> JUndef]
    /\ loaderPc = "merge"
    /\ resolved = JUndef
    /\ raised = FALSE
    /\ loads = 0
    /\ mergeResults = <<>>

LoaderInit == KwIdle /\ (LoadInit \/ MergeInit) /\ StoreIdle /\ HookIdle

\* let config = { ...DEFAULT_CONFIG }; const paths = getConfigPaths(...)
LoadStart ==
    /\ loaderPc = "start"
    /\ LET st == CopyDefaults(objects)
       IN  /\ objects' = st.heap
           /\ resolved' = st.config
    /\ loaderPc' = "user"
    /\ UNCHANGED <<userFile, projectFile, env, raised, loads, mergeBase,
                   mergeLayer, mergeArgs, mergeResults>>
    /\ UNCHANGED <<kwVars, storeVars, hookVars>>

\* Layer 2: user config
LoadUser ==
    /\ loaderPc = "user"
    /\ LET st == MergeFile([heap |-> objects, config |-> resolved,
                            threw |-> FALSE], getConfigPaths.user)
       IN  /\ objects' = st.heap
           /\ resolved' = st.config
           /\ raised' = st.threw
           /\ loaderPc' = IF st.threw THEN "done" ELSE "project"
    /\ UNCHANGED <<userFile, projectFile, env, loads, mergeBase, mergeLayer,
                   mergeArgs, mergeResults>>
    /\ UNCHANGED <<kwVars, storeVars, hookVars>>

\* Layer 3: project config
LoadProject ==
    /\ loaderPc = "project"
    /\ LET st == MergeFile([heap |-> objects, config |-> resolved,
                            threw |-> FALSE], getConfigPaths.project)
       IN  /\ objects' = st.heap
           /\ resolved' = st.config
           /\ raised' = st.threw
           /\ loaderPc' = IF st.threw THEN "done" ELSE "env"
    /\ UNCHANGED <<userFile, projectFile, env, loads, mergeBase, mergeLayer,
                   mergeArgs, mergeResults>>
    /\ UNCHANGED <<kwVars, storeVars, hookVars>>

\* Layer 4: environment variables; return config
LoadEnv ==
    /\ loaderPc = "env"
    /\ LET st == MergeEnv([heap |-> objects, config |-> resolved,
                           threw |-> FALSE], env)
       IN  /\ objects' = st.heap
           /\ resolved' = st.config
           /\ raised' = st.threw
    /\ loaderPc' = "done"
    /\ loads' = loads + 1
    /\ UNCHANGED <<userFile, projectFile, env, mergeBase, mergeLayer,
                   mergeArgs, mergeResults>>
    /\ UNCHANGED <<kwVars, storeVars, hookVars>>

\* the next loadConfig call of the same process
Reload ==
    /\ loaderPc = "done"
    /\ ~raised
    /\ loads < MaxLoads
    /\ loaderPc' = "start"
    /\ resolved' = JUndef
    /\ UNCHANGED <<objects, userFile, projectFile, env, raised, loads,
                   mergeBase, mergeLayer, mergeArgs, mergeResults>>
    /\ UNCHANGED <<kwVars, storeVars, hookVars>>

\* deepMerge(base, layer), called again with the same arguments
MergeCall ==
    /\ loaderPc = "merge"
    /\ Len(mergeResults) < MaxMerges
    /\ LET r == deepMerge(objects, mergeArgs[1], mergeArgs[2])
       IN  /\ objects' = r.heap
           /\ raised' = r.threw
           /\ mergeResults' = Append(mergeResults, r.v)
    /\ UNCHANGED <<userFile, projectFile, env, loaderPc, resolved, loads,
                   mergeBase, mergeLayer, mergeArgs>>
    /\ UNCHANGED <<kwVars, storeVars, hookVars>>

LoaderNext ==
    LoadStart \/ LoadUser \/ LoadProject \/ LoadEnv \/ Reload \/ MergeCall

SpecLoader == LoaderInit /\ [][LoaderNext]_vars

-----------------------------------------------------------------------------
(* State store (state/manager.ts).  The text of a file is a sequence of    *)
(* items: the rendering of one JSON value (indented over several lines     *)
(* when pretty, on one line otherwise), a newline, or text that is not     *)
(* JSON.  Stored values are trees, as for the configuration.               *)

Pretty(v)  == [k |-> "json", pretty |-> TRUE,  v |-> v]
Compact(v) == [k |-> "json", pretty |-> FALSE, v |-> v]
Newline    == [k |-> "nl",   pretty |-> FALSE, v |-> JNull]
NotJson    == [k |-> "raw",  pretty |-> FALSE, v |-> JNull]

\* what JSON.stringify keeps of a value that is not undefined: properties
\* holding undefined are left out, undefined array elements become null
RECURSIVE ToJSON(_)
ToJSON(v) ==
    CASE v.t = "object" ->
           Object([key \in {k \in DOMAIN v.m : v.m[k].t # "undefined"} |->
                     ToJSON(v.m[key])])
      [] v.t = "array" ->
           JArr([i \in 1..Len(v.a) |->
                   IF v.a[i].t = "undefined" THEN JNull ELSE ToJSON(v.a[i])])
      [] OTHER -> v

\* JSON.stringify(data, null, 2): undefined for undefined, else the text
JsonStringifyPretty(data) ==
    IF data.t = "undefined" THEN [isString |-> FALSE, text |-> <<>>]
    ELSE [isString |-> TRUE, text |-> <<Pretty(ToJSON(data))>>]

\* JSON.stringify(entry) + '\n'
LogLine_NoNewline(entry) ==
    IF entry.t = "undefined" THEN <<NotJson>>
    ELSE <<Compact(ToJSON(entry))>>

LogLine(entry) ==
    IF entry.t = "undefined" THEN <<NotJson, Newline>>
    ELSE <<Compact(ToJSON(entry)), Newline>>

\* JSON.parse(raw): one value with white space around it, else SyntaxError
JsonParse(raw) ==
    LET items == SelectSeq(raw, LAMBDA it : it.k # "nl")
    IN  IF Len(items) = 1 /\ items[1].k = "json"
        THEN [threw |-> FALSE, v |-> items[1].v]
        ELSE [threw |-> TRUE, v |-> JUndef]

\* the rendering of the item spans several lines
IsMultiLine(it) ==
    /\ it.k = "json"
    /\ it.pretty
    /\ \/ it.v.t = "object" /\ DOMAIN it.v.m # {}
       \/ it.v.t = "array" /\ it.v.a # <<>>

\* raw.split('\n'): the lines, each without its newline; the lines of an
\* indented value are fragments that are not JSON on their own
RECURSIVE Split(_, _)
Split(raw, line) ==
    IF raw = <<>> THEN <<line>>
    ELSE IF Head(raw).k = "nl" THEN <<line>> \o Split(Tail(raw), <<>>)
    ELSE IF IsMultiLine(Head(raw))
    THEN <<Append(line, NotJson), <<NotJson>>>> \o Split(Tail(raw), <<NotJson>>)
    ELSE Split(Tail(raw), Append(line, Head(raw)))

S_json  == <<".", "j", "s", "o", "n">>
S_jsonl == <<".", "j", "s", "o", "n", "l">>

Includes(str, pat) == \E i \in 1..Len(str) : StartsWithAt(str, i, pat)
EndsWith(str, pat) == StartsWithAt(str, Len(str) - Len(pat) + 1, pat)

\* variant: one directory for both locations
getStateDir_OneDir(location) == "<cwd>/.kw-plugin/state"

\* the state directory of a location
getStateDir(location) ==
    IF location = "global" THEN "~/.config/kw-plugin/state"
    ELSE "<cwd>/.kw-plugin/state"

\* join(dir, name.includes('.') ? name : name + '.json')
getStatePath(name, location) ==
    [dir  |-> getStateDir(location),
     file |-> IF Includes(name, <<".">>) THEN name ELSE name \o S_json]

\* name.endsWith('.jsonl') ? name : name + '.jsonl'
LogFileName(name) == IF EndsWith(name, S_jsonl) THEN name ELSE name \o S_jsonl

NoPath == [dir |-> "", file |-> <<>>]

\* existsSync(path)
Exists(d, path) == path \in DOMAIN d

\* variant: the new text is added after the old one
WriteFile_Append(d, path, text) ==
    [q \in DOMAIN d \cup {path} |->
        IF q # path THEN d[q]
        ELSE IF path \in DOMAIN d THEN d[path] \o text ELSE text]

\* writeFileSync(path, text)
WriteFile(d, path, text) ==
    [q \in DOMAIN d \cup {path} |-> IF q = path THEN text ELSE d[q]]

\* appendFileSync(path, text)
AppendFile(d, path, text) ==
    [q \in DOMAIN d \cup {path} |->
        IF q # path THEN d[q]
        ELSE IF path \in DOMAIN d THEN d[path] \o text ELSE text]

\* unlinkSync(path)
Unlink(d, path) == [q \in DOMAIN d \ {path} |-> d[q]]

\* the value an operation returns: exists / success / the boolean (flag),
\* data, the log entries, foundAt / path and the error message; raised
\* when an exception leaves the call instead
Result(flag, data, entries, path) ==
    [flag |-> flag, data |-> data, entries |-> entries, path |-> path,
     error |-> "", raised |-> FALSE]

E_ACCES    == "EACCES: permission denied"
E_ARG_TYPE == "The \"data\" argument must be of type string"

\* variant: the handler lets the exception go on to the caller
Caught_Rethrow(path, message) ==
    [Result(FALSE, JUndef, <<>>, path) EXCEPT !.raised = TRUE]

\* catch (err) { return { success: false, path, error: message } }
Caught(path, message) ==
    [Result(FALSE, JUndef, <<>>, path) EXCEPT !.error = message]

\* result: disk, dirs, result
readState(d, ds, ro, name, location) ==
    LET path == getStatePath(name, location)
        p    == JsonParse(d[path])
    IN  [disk |-> d, dirs |-> ds,
         result |->
           IF ~Exists(d, path) THEN Result(FALSE, JUndef, <<>>, NoPath)
           ELSE IF p.threw THEN Result(FALSE, JUndef, <<>>, NoPath)
           ELSE Result(TRUE, p.v, <<>>, path)]

\* mkdirSync(dir, { recursive: true }) when the directory is missing
EnsureDir(ds, ro, dir) ==
    IF dir \in ds THEN [threw |-> FALSE, dirs |-> ds]
    ELSE IF dir \in ro THEN [threw |-> TRUE, dirs |-> ds]
    ELSE [threw |-> FALSE, dirs |-> ds \cup {dir}]

writeState(d, ds, ro, name, data, location) ==
    LET path == getStatePath(name, location)
        mk   == EnsureDir(ds, ro, path.dir)
        json == JsonStringifyPretty(data)
    IN  IF mk.threw
        THEN [disk |-> d, dirs |-> mk.dirs, result |-> Caught(path, E_ACCES)]
        ELSE IF ~json.isString
        THEN [disk |-> d, dirs |-> mk.dirs,
              result |-> Caught(path, E_ARG_TYPE)]
        ELSE IF path.dir \in ro
        THEN [disk |-> d, dirs |-> mk.dirs, result |-> Caught(path, E_ACCES)]
        ELSE [disk |-> WriteFile(d, path, json.text), dirs |-> mk.dirs,
              result |-> Result(TRUE, JUndef, <<>>, path)]

\* an updater: the function a caller passes to updateState
U_increment == "s => ({ ...s, iteration: (s?.iteration ?? 0) + 1 })"
U_init      == "() => ({ phase: 'init', iteration: 0, active: true })"

S_init == <<"i", "n", "i", "t">>

\* updater(current), for a current value that is undefined, a number or
\* an object
Apply(updater, current) ==
    IF updater = U_init
    THEN Object(("phase" :> JStr(S_init)) @@ ("iteration" :> JNum(0))
                @@ ("active" :> JBool(TRUE)))
    ELSE LET own == IF current.t = "object" THEN current.m ELSE <<>>
             old == IF "iteration" \in DOMAIN own
                    THEN own["iteration"] ELSE JUndef
             n   == IF old.t = "number" THEN old.n ELSE 0
         IN  Object(("iteration" :> JNum(n + 1)) @@ own)

\* variant: the updater is not shown what is stored
updateStateRead_Blind(d, ds, ro, name, updater, location) ==
    [updater |-> updater, data |-> JUndef,
     updated |-> Apply(updater, JUndef)]

\* const { data } = readState(name, location, cwd);
\* const updated = updater(data);
updateStateRead(d, ds, ro, name, updater, location) ==
    LET data == readState(d, ds, ro, name, location).result.data
    IN  [updater |-> updater, data |-> data,
         updated |-> Apply(updater, data)]

\* variant: the value is read again and transformed at the time of writing
updateStateWrite_Reread(d, ds, ro, name, call, location) ==
    writeState(d, ds, ro, name,
               Apply(call.updater,
                     readState(d, ds, ro, name, location).result.data),
               location)

\* return writeState(name, updated, location, cwd);
updateStateWrite(d, ds, ro, name, call, location) ==
    writeState(d, ds, ro, name, call.updated, location)

\* updateState when nothing else runs between its two steps
updateState(d, ds, ro, name, updater, location) ==
    updateStateWrite(d, ds, ro, name,
                     updateStateRead(d, ds, ro, name, updater, location),
                     location)

appendState(d, ds, ro, name, entry, location) ==
    LET path == getStatePath(LogFileName(name), location)
        mk   == EnsureDir(ds, ro, path.dir)
    IN  IF mk.threw \/ path.dir \in ro
        THEN [disk |-> d, dirs |-> mk.dirs, result |-> Caught(path, E_ACCES)]
        ELSE [disk |-> AppendFile(d, path, LogLine(entry)), dirs |-> mk.dirs,
              result |-> Result(TRUE, JUndef, <<>>, path)]

readAppendLog(d, ds, ro, name, location) ==
    LET path   == getStatePath(LogFileName(name), location)
        lines  == SelectSeq(Split(d[path], <<>>), LAMBDA l : l # <<>>)
        parsed == [i \in 1..Len(lines) |-> JsonParse(lines[i])]
    IN  [disk |-> d, dirs |-> ds,
         result |->
           IF ~Exists(d, path) THEN Result(TRUE, JUndef, <<>>, path)
           ELSE IF \E i \in 1..Len(lines) : parsed[i].threw
           THEN Result(TRUE, JUndef, <<>>, path)
           ELSE Result(TRUE, JUndef,
                       [i \in 1..Len(lines) |-> parsed[i].v], path)]

\* return existsSync(path)
stateExists(d, ds, ro, name, location) ==
    LET path == getStatePath(name, location)
    IN  [disk |-> d, dirs |-> ds,
         result |-> Result(Exists(d, path), JUndef, <<>>, path)]

\* variant: true is returned whether or not there was a file
clearState_AlwaysTrue(d, ds, ro, name, location) ==
    LET path == getStatePath(name, location)
    IN  [disk |-> IF path.dir \in ro THEN d ELSE Unlink(d, path), dirs |-> ds,
         result |-> Result(TRUE, JUndef, <<>>, path)]

clearState(d, ds, ro, name, location) ==
    LET path == getStatePath(name, location)
    IN  IF ~Exists(d, path) \/ path.dir \in ro
        THEN [disk |-> d, dirs |-> ds,
              result |-> Result(FALSE, JUndef, <<>>, path)]
        ELSE [disk |-> Unlink(d, path), dirs |-> ds,
              result |-> Result(TRUE, JUndef, <<>>, path)]

-----------------------------------------------------------------------------
(* Bounded inputs of the store, and its operations as actions *)

MaxOps == 3   \* store operations in one run

N_mode        == <<"m", "o", "d", "e">>
N_mode_json   == N_mode \o S_json
N_usage_jsonl == <<"u", "s", "a", "g", "e">> \o S_jsonl
N_events_log  == <<"e", "v", "e", "n", "t", "s", ".", "l", "o", "g">>

\* (name, location) pairs the callers use; the second name already has
\* the log extension, so its document and its log are the same file
StoreTargets ==
    {<<N_mode, "local">>, <<N_mode, "global">>, <<N_usage_jsonl, "local">>}

\* values the callers store: two JSON values, an object with a property
\* that holds undefined, and undefined
StoreData ==
    {JNum(1), Object("a" :> JArr(<<JNum(2), JNull>>)),
     Object(("a" :> JNum(1)) @@ ("b" :> JUndef)), JUndef}

\* the processes that call updateState at the same time
Procs == {1, 2}

\* what the callers of one run do: documents under two names and two
\* locations; logs under the same; documents and logs together under a
\* name with an extension that is not the log's and a name that has the
\* log's; updates by two processes on a name, the same name with its
\* extension written out, and the other location
W_documents ==
    [targets  |-> StoreTargets,
     data     |-> StoreData,
     updaters |-> {},
     ops      |-> {"readState", "writeState", "clearState"}]

W_logs ==
    [targets  |-> StoreTargets,
     data     |-> StoreData,
     updaters |-> {},
     ops      |-> {"appendState", "readAppendLog", "clearState"}]

W_paths ==
    [targets  |-> {<<N_events_log, "local">>, <<N_usage_jsonl, "local">>},
     data     |-> {JNum(1)},
     updaters |-> {},
     ops      |-> {"readState", "writeState", "appendState",
                   "readAppendLog", "clearState", "stateExists"}]

W_updates ==
    [targets  |-> {<<N_mode, "local">>, <<N_mode_json, "local">>,
                   <<N_mode, "global">>},
     data     |-> {JNum(1)},
     updaters |-> {U_increment, U_init},
     ops      |-> {"writeState", "updateState", "clearState"}]

Workloads == {W_documents, W_logs, W_paths, W_updates}

NoUpdate == [active |-> FALSE, name |-> <<>>, location |-> "", seen |-> 0,
             call |-> [updater |-> "", data |-> JUndef, updated |-> JUndef]]

\* the store is empty; the global directory may reject writes
StoreInit ==
    /\ KwIdle
    /\ LoaderIdle
    /\ HookIdle
    /\ disk = <<>>
    /\ dirs = {}
    /\ readOnly \in {{}, {getStateDir("global")}}
    /\ history = <<>>
    /\ workload \in Workloads
    /\ pending = [p \in Procs |-> NoUpdate]

\* one operation of the history: its arguments, its result, whether it
\* changed the disk, and how many operations had completed when it looked
\* at the disk; for an update also the updater and the value it was given
Op(op, name, location, arg, before, after) ==
    [op |-> op, name |-> name, location |-> location, arg |-> arg,
     result |-> after.result,
     touched |-> after.disk # before,
     seen |-> Len(history),
     updater |-> "", read |-> JUndef]

\* a caller may start the operation
MayStart(op) ==
    /\ op \in workload.ops
    /\ Len(history) + Cardinality({p \in Procs : pending[p].active}) < MaxOps

ReadState ==
    /\ MayStart("readState")
    /\ \E tg \in workload.targets :
         LET r == readState(disk, dirs, readOnly, tg[1], tg[2])
         IN  /\ disk' = r.disk
             /\ dirs' = r.dirs
             /\ history' = Append(history,
                              Op("readState", tg[1], tg[2], JUndef, disk, r))
    /\ UNCHANGED <<readOnly, workload, pending>>
    /\ UNCHANGED <<kwVars, loaderVars, hookVars>>

WriteState ==
    /\ MayStart("writeState")
    /\ \E tg \in workload.targets, data \in workload.data :
         LET r == writeState(disk, dirs, readOnly, tg[1], data, tg[2])
         IN  /\ disk' = r.disk
             /\ dirs' = r.dirs
             /\ history' = Append(history,
                              Op("writeState", tg[1], tg[2], data, disk, r))
    /\ UNCHANGED <<readOnly, workload, pending>>
    /\ UNCHANGED <<kwVars, loaderVars, hookVars>>

\* updateState, first step: the state is read and the updater applied;
\* the processes are interchangeable, so the call is made by the idle
\* process with the lowest number
UpdateRead(p) ==
    /\ MayStart("updateState")
    /\ ~pending[p].active
    /\ \A q \in Procs : q < p => pending[q].active
    /\ \E tg \in workload.targets, updater \in workload.updaters :
         pending' = [pending EXCEPT ![p] =
                       [active |-> TRUE, name |-> tg[1], location |-> tg[2],
                        seen |-> Len(history),
                        call |-> updateStateRead(disk, dirs, readOnly,
                                                 tg[1], updater, tg[2])]]
    /\ UNCHANGED <<disk, dirs, readOnly, history, workload>>
    /\ UNCHANGED <<kwVars, loaderVars, hookVars>>

\* updateState, second step: the updated value is written
UpdateWrite(p) ==
    /\ pending[p].active
    /\ LET u == pending[p]
           r == updateStateWrite(disk, dirs, readOnly, u.name, u.call,
                                 u.location)
       IN  /\ disk' = r.disk
           /\ dirs' = r.dirs
           /\ history' = Append(history,
                 [Op("updateState", u.name, u.location, u.call.updated,
                     disk, r)
                  EXCEPT !.updater = u.call.updater, !.read = u.call.data,
                         !.seen = u.seen])
    /\ pending' = [pending EXCEPT ![p] = NoUpdate]
    /\ UNCHANGED <<readOnly, workload>>
    /\ UNCHANGED <<kwVars, loaderVars, hookVars>>

AppendState ==
    /\ MayStart("appendState")
    /\ \E tg \in workload.targets, entry \in workload.data :
         LET r == appendState(disk, dirs, readOnly, tg[1], entry, tg[2])
         IN  /\ disk' = r.disk
             /\ dirs' = r.dirs
             /\ history' = Append(history,
                              Op("appendState", tg[1], tg[2], entry, disk, r))
    /\ UNCHANGED <<readOnly, workload, pending>>
    /\ UNCHANGED <<kwVars, loaderVars, hookVars>>

ReadAppendLog ==
    /\ MayStart("readAppendLog")
    /\ \E tg \in workload.targets :
         LET r == readAppendLog(disk, dirs, readOnly, tg[1], tg[2])
         IN  /\ disk' = r.disk
             /\ dirs' = r.dirs
             /\ history' = Append(history,
                              Op("readAppendLog", tg[1], tg[2], JUndef, disk, r))
    /\ UNCHANGED <<readOnly, workload, pending>>
    /\ UNCHANGED <<kwVars, loaderVars, hookVars>>

StateExists ==
    /\ MayStart("stateExists")
    /\ \E tg \in workload.targets :
         LET r == stateExists(disk, dirs, readOnly, tg[1], tg[2])
         IN  /\ disk' = r.disk
             /\ dirs' = r.dirs
             /\ history' = Append(history,
                              Op("stateExists", tg[1], tg[2], JUndef, disk, r))
    /\ UNCHANGED <<readOnly, workload, pending>>
    /\ UNCHANGED <<kwVars, loaderVars, hookVars>>

ClearState ==
    /\ MayStart("clearState")
    /\ \E tg \in workload.targets :
         LET r == clearState(disk, dirs, readOnly, tg[1], tg[2])
         IN  /\ disk' = r.disk
             /\ dirs' = r.dirs
             /\ history' = Append(history,
                              Op("clearState", tg[1], tg[2], JUndef, disk, r))
    /\ UNCHANGED <<readOnly, workload, pending>>
    /\ UNCHANGED <<kwVars, loaderVars, hookVars>>

StoreNext ==
    \/ ReadState \/ WriteState \/ AppendState \/ ReadAppendLog
    \/ StateExists \/ ClearState
    \/ \E p \in Procs : UpdateRead(p) \/ UpdateWrite(p)

SpecStore == StoreInit /\ [][StoreNext]_vars

-----------------------------------------------------------------------------
(* The hook script scripts/keyword-detector.mjs: main() reads the host's   *)
(* text from stdin, calls loadConfig and processKeywords of the compiled   *)
(* modules and writes one line to stdout.  processKeywords runs as the     *)
(* pipeline above; the configuration loadConfig returns is an input.       *)

\* what the host pipes in: nothing, text that is not JSON, the JSON text
\* null, a JSON number, a JSON object whose prompt is the given value, or
\* a stream that fails while it is read
Stdin(kind, promptValue) == [kind |-> kind, prompt |-> promptValue]

\* let data = {}; try { data = JSON.parse(input); } catch { }
HookData(in) ==
    CASE in.kind = "object" -> Object("prompt" :> in.prompt)
      [] in.kind = "null"   -> JNull
      [] in.kind = "number" -> JNum(5)
      [] OTHER              -> Object(<<>>)

\* const prompt = data.prompt || '': a TypeError for null, else the
\* property when it is there and truthy
HookPrompt(data) ==
    IF data.t = "null" THEN [threw |-> TRUE, prompt |-> <<>>]
    ELSE IF data.t = "object" /\ "prompt" \in DOMAIN data.m
            /\ Truthy(data.m["prompt"])
    THEN [threw |-> FALSE, prompt |-> data.m["prompt"].s]
    ELSE [threw |-> FALSE, prompt |-> <<>>]

\* variant: an exception ends the script before anything is written
HookOutput_NoCatch(failed, output) ==
    IF failed THEN <<>> ELSE <<output>>

\* console.log(JSON.stringify(output)), or, in the catch block,
\* console.log(JSON.stringify({ continue: true }))
HookOutput(failed, output) ==
    IF failed THEN <<NoOpPayload>> ELSE <<output>>

CompiledModules == {"dist/features/magic-keywords.js", "dist/config/loader.js"}

HookInputs ==
    {Stdin(k, JUndef) : k \in {"empty", "garbage", "null", "number",
                               "unreadable"}}
    \cup {Stdin("object", v) :
            v \in {JUndef, JStr(<<>>)} \cup {JStr(q) : q \in RobustPrompts}}

\* the script has been started; keywords.json is as installed
HookInit ==
    /\ prompt = <<>>
    /\ config = ConfigUndefined
    /\ file \in RobustFiles
    /\ heap = <<>>
    /\ pc = "idle"
    /\ baseKeywords = NoArray
    /\ keywords = NoArray
    /\ sanitized = <<>>
    /\ matches = <<>>
    /\ payload = NoPayload
    /\ threw = FALSE
    /\ fileReads = <<>>
    /\ LoaderIdle
    /\ StoreIdle
    /\ stdin \in HookInputs
    /\ hookPc = "read"
    /\ stdout = <<>>
    /\ imported = {}

\* const input = await readStdin(); ... if (!prompt) { console.log(...);
\* return; }
HookRead ==
    /\ hookPc = "read"
    /\ LET p == HookPrompt(HookData(stdin))
       IN  IF stdin.kind = "unreadable" \/ p.threw
           THEN /\ stdout' = stdout \o HookOutput(TRUE, NoOpPayload)
                /\ hookPc' = "done"
                /\ UNCHANGED prompt
           ELSE IF p.prompt = <<>>
           THEN /\ stdout' = stdout \o HookOutput(FALSE, NoOpPayload)
                /\ hookPc' = "done"
                /\ UNCHANGED prompt
           ELSE /\ prompt' = p.prompt
                /\ hookPc' = "import"
                /\ UNCHANGED stdout
    /\ UNCHANGED <<config, file, heap, pc, baseKeywords, keywords, sanitized,
                   matches, payload, threw, fileReads>>
    /\ UNCHANGED <<stdin, imported>>
    /\ UNCHANGED <<loaderVars, storeVars>>

\* the two await import(...) of the compiled modules succeed
HookImport ==
    /\ hookPc = "import"
    /\ imported' = CompiledModules
    /\ hookPc' = "config"
    /\ UNCHANGED <<stdin, stdout>>
    /\ UNCHANGED <<kwVars, loaderVars, storeVars>>

\* an import rejects (the plugin was not built): the catch block writes
HookImportFails ==
    /\ hookPc = "import"
    /\ stdout' = stdout \o HookOutput(TRUE, NoOpPayload)
    /\ hookPc' = "done"
    /\ UNCHANGED <<stdin, imported>>
    /\ UNCHANGED <<kwVars, loaderVars, storeVars>>

\* const config = loadConfig(...); processKeywords(prompt, config, root)
\* is entered
HookLoadConfig ==
    /\ hookPc = "config"
    /\ config' \in RobustConfigs
    /\ pc' = "gate"
    /\ hookPc' = "process"
    /\ UNCHANGED <<prompt, file, heap, baseKeywords, keywords, sanitized,
                   matches, payload, threw, fileReads>>
    /\ UNCHANGED <<stdin, stdout, imported>>
    /\ UNCHANGED <<loaderVars, storeVars>>

\* processKeywords has returned or thrown: the output, or the catch
\* block's payload, is written
HookWrite ==
    /\ hookPc = "process"
    /\ pc = "done"
    /\ stdout' = stdout \o HookOutput(threw, payload)
    /\ hookPc' = "done"
    /\ UNCHANGED <<stdin, imported>>
    /\ UNCHANGED <<kwVars, loaderVars, storeVars>>

HookNext ==
    \/ HookRead \/ HookImport \/ HookImportFails \/ HookLoadConfig
    \/ Gate \/ Load \/ Override \/ Detect \/ Build
    \/ HookWrite

SpecHook == HookInit /\ [][HookNext]_vars

-----------------------------------------------------------------------------
(* Vocabulary of the properties *)

\* applyKeywordOverrides has returned
Overridden == keywords.ref # 0

\* detectKeywords has returned
Detected == pc = "build" \/ (pc = "done" /\ Overridden /\ ~threw)

\* processKeywords has returned a payload
Returned == pc = "done" /\ ~threw

HasSideChannel(pl) == "hookSpecificOutput" \in DOMAIN pl

\* every element is a MagicKeyword record: string name, list of strings
WellFormedKeyword(kw) ==
    /\ kw.t = "object"
    /\ kw.name.t = "string"
    /\ kw.triggers.t = "array"
    /\ \A i \in 1..Len(kw.triggers.a) : kw.triggers.a[i].t = "string"

WellFormedTable(h, arr) ==
    \A i \in 1..Len(arr.items) : WellFormedKeyword(h[arr.items[i]])

\* t occurs in s at index i, compared case-insensitively
OccursAt(t, s, i) ==
    /\ i >= 1
    /\ i + Len(t) - 1 <= Len(s)
    /\ \A k \in 1..Len(t) : ToUpperChar(t[k]) = ToUpperChar(s[i + k - 1])

Occurrences(t, s) == {i \in 1..Len(s) : OccursAt(t, s, i)}

IsWord(t) == Len(t) >= 1 /\ \A k \in 1..Len(t) : IsWordChar(t[k])

\* the occurrence of t at i is part of a longer word
Embedded(t, s, i) == IsWordAt(s, i - 1) \/ IsWordAt(s, i + Len(t))

\* the fenced code blocks of a prompt, as <<first, last>> index pairs
\* (delimiters included), paired left to right
RECURSIVE FencedBlocksFrom(_, _)
FencedBlocksFrom(s, i) ==
    IF i > Len(s) THEN {}
    ELSE LET e == FenceEnd(s, i)
         IN  IF e = 0 THEN FencedBlocksFrom(s, i + 1)
             ELSE {<<i, e>>} \cup FencedBlocksFrom(s, e + 1)

FencedBlocks(s) == FencedBlocksFrom(s, 1)

\* the occurrence of t at i lies between the delimiters of a fenced block
InsideFence(t, s, i) ==
    \E b \in FencedBlocks(s) : b[1] + 3 <= i /\ i + Len(t) - 1 <= b[2] - 3

TriggerStrings(kw) == {kw.triggers.a[i].s : i \in 1..Len(kw.triggers.a)}

MatchedNames(h, ids) == [i \in 1..Len(ids) |-> h[ids[i]].name.s]

PositionIn(ids, id) == CHOOSE k \in 1..Len(ids) : ids[k] = id

HasLine(lines, k, v) == \E i \in 1..Len(lines) : lines[i] = Line(k, v)
HasLineKind(lines, k) == \E i \in 1..Len(lines) : lines[i].k = k

InvokeImmediately ==
    "IMPORTANT: Invoke the skill IMMEDIATELY using the Skill tool."

InvokeAll ==
    "IMPORTANT: Invoke all skills listed above using the Skill tool."

\* the lines of one template, in order of appearance
LinesOfKind(lines, k) == SelectSeq(lines, LAMBDA l : l.k = k)

-----------------------------------------------------------------------------
(* Properties *)

\* C1: applyKeywordOverrides returns the very same table reference whenever
\* no overrides are configured: overrides undefined, or the empty mapping {}.
C1_IdentityWhenNoOverrides ==
    LET o == ConfigOverrides(config)
    IN  (/\ Overridden
         /\ WellFormedTable(heap, baseKeywords)
         /\ o.t = "undefined" \/ (o.t = "object" /\ DOMAIN o.m = {}))
        => keywords = baseKeywords

\* C2: processKeywords never raises and the payload it returns has
\* continue = true, for every prompt, configuration and keyword file.
C2_ProcessKeywordsTotal ==
    /\ ~threw
    /\ pc = "done" => ("continue" \in DOMAIN payload /\ payload.continue = TRUE)

\* C3: a keyword with a single trigger made of word characters is not
\* matched when every occurrence of the trigger in the sanitized prompt is
\* immediately preceded or followed by a word character.
C3_NoPartialWordMatch ==
    Detected =>
        \A i \in 1..Len(keywords.items) :
            LET id == keywords.items[i]
                kw == heap[id]
            IN  (/\ WellFormedKeyword(kw)
                 /\ Len(kw.triggers.a) = 1
                 /\ IsWord(kw.triggers.a[1].s)
                 /\ \A o \in Occurrences(kw.triggers.a[1].s, sanitized) :
                        Embedded(kw.triggers.a[1].s, sanitized, o))
                => id \notin Range(matches)

\* C3 witness: a single-trigger keyword whose trigger occurs in the
\* sanitized prompt, only inside longer words, and that is not matched
C3_Witness ==
    /\ Detected
    /\ \E i \in 1..Len(keywords.items) :
         LET id == keywords.items[i]
             kw == heap[id]
         IN  /\ WellFormedKeyword(kw)
             /\ Len(kw.triggers.a) = 1
             /\ IsWord(kw.triggers.a[1].s)
             /\ Occurrences(kw.triggers.a[1].s, sanitized) # {}
             /\ \A o \in Occurrences(kw.triggers.a[1].s, sanitized) :
                    Embedded(kw.triggers.a[1].s, sanitized, o)
             /\ id \notin Range(matches)

\* C4: a keyword whose triggers occur in the prompt only inside fenced code
\* blocks, and nowhere else, is not returned by detectKeywords.
C4_NoMatchInsideFence ==
    Detected =>
        \A i \in 1..Len(keywords.items) :
            LET id == keywords.items[i]
                kw == heap[id]
            IN  (/\ WellFormedKeyword(kw)
                 /\ \A t \in TriggerStrings(kw) : Len(t) >= 1
                 /\ \E t \in TriggerStrings(kw) : Occurrences(t, prompt) # {}
                 /\ \A t \in TriggerStrings(kw) :
                        \A o \in Occurrences(t, prompt) : InsideFence(t, prompt, o))
                => id \notin Range(matches)

\* C5: detection is case-insensitive in the prompt: the upper-cased and the
\* lower-cased prompt yield the same sequence of matched keyword names.
C5_CaseInsensitive ==
    (Overridden /\ WellFormedTable(heap, keywords)) =>
        LET up == detectKeywords(heap, toUpperCase(prompt), keywords)
            lo == detectKeywords(heap, toLowerCase(prompt), keywords)
        IN  MatchedNames(heap, up.matches) = MatchedNames(heap, lo.matches)

\* C6: the result of detectKeywords consists of distinct elements of the
\* table in ascending priority order, equal priorities in table order.
C6_SortedStable ==
    Detected =>
        /\ \A i \in 1..Len(matches) : matches[i] \in Range(keywords.items)
        /\ \A i, j \in 1..Len(matches) :
             i < j =>
               /\ matches[i] # matches[j]
               /\ heap[matches[i]].priority <= heap[matches[j]].priority
               /\ heap[matches[i]].priority = heap[matches[j]].priority
                    => PositionIn(keywords.items, matches[i])
                         < PositionIn(keywords.items, matches[j])

\* C6 witness: three matches, two of equal priority, found in a table that
\* lists a larger priority before a smaller one
C6_Witness ==
    /\ Detected
    /\ Len(matches) = 3
    /\ \E i, j \in 1..Len(matches) :
         i # j /\ heap[matches[i]].priority = heap[matches[j]].priority
    /\ \E i, j \in 1..Len(keywords.items) :
         /\ i < j
         /\ keywords.items[i] \in Range(matches)
         /\ keywords.items[j] \in Range(matches)
         /\ heap[keywords.items[i]].priority > heap[keywords.items[j]].priority

\* C7: with features.magicKeywords false, processKeywords returns the no-op
\* payload and never touches the keyword file.
C7_GateBeforeLoad ==
    FeatureDisabled(config) =>
        /\ fileReads = <<>>
        /\ ~threw
        /\ pc = "done" => payload = NoOpPayload

\* C7 witness: a disabled run has returned although a matching table exists
C7_Witness ==
    /\ pc = "done"
    /\ FeatureDisabled(config)
    /\ file = ArrayFile(<<KwReview>>)
    /\ prompt = S_cr

\* C8: no side-channel content when the table is empty because the source
\* is missing, unreadable, unparsable or not an array, nor when the table
\* is non-empty and nothing matches (buildKeywordOutput of no matches).
C8_NoOpWhenNothingToSay ==
    /\ (pc = "done" /\ file \in FailingFiles)
          => (~threw /\ payload = NoOpPayload)
    /\ (Returned /\ matches = <<>>) => ~HasSideChannel(payload)

\* C8 witness: a non-empty table was searched, nothing matched, and the
\* payload was built
C8_Witness ==
    /\ Returned
    /\ Detected
    /\ Len(keywords.items) > 0
    /\ matches = <<>>
    /\ payload = NoOpPayload

\* C9: with a non-empty overrides map the result has the same length and
\* order; a keyword whose name is a key has its triggers replaced by the
\* configured list and every other field unchanged; a keyword whose name
\* is not a key is passed through as the same record; the input table and
\* its records are not modified.
C9_OverrideFrame ==
    LET o == ConfigOverrides(config)
    IN  (/\ Overridden
         /\ o.t = "object"
         /\ DOMAIN o.m # {}
         /\ \A k \in DOMAIN o.m : o.m[k].t = "array"
         /\ WellFormedTable(heap, baseKeywords))
        =>
        /\ Len(keywords.items) = Len(baseKeywords.items)
        /\ baseKeywords.items = [i \in 1..Len(baseKeywords.items) |-> i]
        /\ \A i \in 1..Len(baseKeywords.items) :
             LET old == heap[baseKeywords.items[i]]
                 new == heap[keywords.items[i]]
             IN  /\ old = loadKeywordsFromFile(file)[i]
                 /\ IF old.name.s \in DOMAIN o.m
                    THEN new = [old EXCEPT !.triggers = o.m[old.name.s]]
                    ELSE keywords.items[i] = baseKeywords.items[i]

\* C10: for a single match the text has the single-keyword banner with the
\* upper-cased name and the instruction; it has the skill line (and the
\* arguments line when arguments are present) and the invoke-immediately
\* directive exactly when the keyword declares a skill.
C10_SingleKeywordPayload ==
    (Returned /\ Len(matches) = 1) =>
        LET kw    == heap[matches[1]]
            lines == payload.hookSpecificOutput.additionalContext
        IN  /\ HasSideChannel(payload)
            /\ lines[1] = Line("[MAGIC KEYWORD: ]", toUpperCase(kw.name.s))
            /\ HasLine(lines, "instruction", kw.instruction.s)
            /\ IF kw.skill.t = "string"
               THEN /\ HasLine(lines, "Skill: ", kw.skill.s)
                    /\ HasLineKind(lines, InvokeImmediately)
                    /\ (kw.skillArgs.t = "string")
                         <=> HasLine(lines, "Arguments: ", kw.skillArgs.s)
               ELSE /\ ~HasLineKind(lines, "Skill: ")
                    /\ ~HasLineKind(lines, "Arguments: ")
                    /\ ~HasLineKind(lines, InvokeImmediately)

\* C10 witness: one keyword with a skill and arguments matched and the
\* payload was returned
C10_Witness ==
    /\ Returned
    /\ Len(matches) = 1
    /\ heap[matches[1]].skill.t = "string"
    /\ heap[matches[1]].skillArgs.t = "string"

\* C11: for two or more matches the first line is the plural banner with
\* the matched names upper-cased and joined by ", ", in match order, which
\* is ascending priority; the subsection headings are those names in the
\* same order, each followed by its keyword's instruction; the invoke-all
\* directive is the last line, once, when some matched keyword declares a
\* skill, and is absent otherwise.  A priority-1 match precedes a
\* priority-10 match in the banner.
C11_MultiKeywordPayload ==
    (Returned /\ Len(matches) >= 2) =>
        LET lines    == payload.hookSpecificOutput.additionalContext
            n        == Len(matches)
            kw(i)    == heap[matches[i]]
            names    == [i \in 1..n |-> toUpperCase(kw(i).name.s)]
            headings == LinesOfKind(lines, "### ")
            bodies   == LinesOfKind(lines, "instruction")
            anySkill == \E i \in 1..n : kw(i).skill.t = "string"
        IN  /\ HasSideChannel(payload)
            /\ lines[1] = Line("[MAGIC KEYWORDS: ]", JoinWith(names, <<",", " ">>))
            /\ Len(LinesOfKind(lines, "[MAGIC KEYWORDS: ]")) = 1
            /\ \A i, j \in 1..n : i < j => kw(i).priority <= kw(j).priority
            /\ [i \in 1..Len(headings) |-> headings[i].v] = names
            /\ [i \in 1..Len(bodies) |-> bodies[i].v] =
                   [i \in 1..n |-> kw(i).instruction.s]
            /\ \A i \in 1..Len(lines) :
                   lines[i].k = "### " =>
                       /\ i < Len(lines)
                       /\ lines[i + 1].k = "instruction"
            /\ Len(LinesOfKind(lines, InvokeAll)) = (IF anySkill THEN 1 ELSE 0)
            /\ anySkill => lines[Len(lines)].k = InvokeAll
            /\ ~HasLineKind(lines, InvokeImmediately)
            /\ \A i, j \in 1..n :
                   (kw(i).priority = 1 /\ kw(j).priority = 10) => i < j

\* C11 witness: a priority-1 keyword with a skill and a priority-10 keyword
\* both matched, and the payload was returned
C11_Witness ==
    /\ Returned
    /\ Len(matches) >= 2
    /\ heap[matches[1]].priority = 1
    /\ heap[matches[1]].skill.t = "string"
    /\ \E j \in 2..Len(matches) : heap[matches[j]].priority = 10

-----------------------------------------------------------------------------
(* Properties of the configuration resolver *)

\* the value at a path of property names, undefined where the path ends early
RECURSIVE Lookup(_, _)
Lookup(tree, path) ==
    IF path = <<>> THEN tree
    ELSE IF tree.t = "object" /\ Head(path) \in DOMAIN tree.m
    THEN Lookup(tree.m[Head(path)], Tail(path))
    ELSE JUndef

\* the reference merge of two object trees
RECURSIVE RefMerge(_, _)
RefMerge(base, layer) ==
    LET set == {k \in DOMAIN layer.m : layer.m[k].t # "undefined"}
    IN  Object([k \in DOMAIN base.m \cup set |->
                  IF k \notin set THEN base.m[k]
                  ELSE IF /\ layer.m[k].t = "object"
                          /\ k \in DOMAIN base.m
                          /\ base.m[k].t = "object"
                  THEN RefMerge(base.m[k], layer.m[k])
                  ELSE layer.m[k]])

\* deepMerge has returned at least once
Merged == loaderPc = "merge" /\ mergeResults # <<>>

\* loadConfig has returned
Loaded == loaderPc = "done" /\ ~raised

\* the configuration loadConfig returns for two files and an environment
ResolvedTree(uf, pf, e) ==
    LET st == loadConfig(DefaultObjects, uf, pf, e)
    IN  Tree(st.heap, st.config)

\* the configuration the call in progress has returned
Resolved == Tree(objects, resolved)

\* the leaf fields of PluginConfig
F_sessionStartContext == <<"features", "sessionStartContext">>
F_magicKeywords       == <<"features", "magicKeywords">>
F_maxBackgroundTasks  == <<"permissions", "maxBackgroundTasks">>
F_review              == <<"magicKeywords", "review">>

ConfigFields ==
    {F_sessionStartContext, F_magicKeywords, F_maxBackgroundTasks, F_review}

\* the file is absent or unreadable, or parses without errors to an
\* object whose sections are objects
FollowsSchema(f) ==
    f.kind = "content" =>
        /\ ~f.errors
        /\ f.value.t = "object"
        /\ \A k \in DOMAIN f.value.m : f.value.m[k].t = "object"

\* what a file layer and the environment layer set
FileLayer(f) == IF f.kind = "content" THEN f.value ELSE Object(NoProps)
EnvLayer(e)  == LET l == loadEnvConfig(<<>>, e) IN Tree(l.heap, l.v)

Sets(layer, path) == Lookup(layer, path).t # "undefined"

\* the value of the highest layer that sets the field
Winner(path) ==
    LET layers == <<EnvLayer(env), FileLayer(projectFile),
                    FileLayer(userFile), DEFAULT_CONFIG>>
        setting == {i \in 1..Len(layers) : Sets(layers[i], path)}
    IN  IF setting = {} THEN JUndef ELSE Lookup(layers[Min(setting)], path)

S_true  == <<"t", "r", "u", "e">>
S_false == <<"f", "a", "l", "s", "e">>

\* the file, taken as absent when it has syntax errors
WithoutBroken(f) == IF f.errors THEN AbsentFile ELSE f

\* the values of KW_PLUGIN_MAX_BACKGROUND_TASKS that start, after white
\* space, with an optionally signed run of digits, and the integer they
\* start with
IntegerTexts ==
    (<<"1","0">> :> 10) @@ (<<"1","2","p","x">> :> 12) @@
    (<<" ","7">> :> 7) @@ (<<"-","3">> :> 0 - 3)

\* C12: every deepMerge result equals the reference merge of the two
\* arguments: recursive where both sides hold an object, the layer's value
\* where it is defined and either side is not an object (arrays and null
\* replace), the base's value for keys the layer leaves out or undefined.
C12_DeepMergeIsReferenceMerge ==
    Merged =>
        /\ ~raised
        /\ \A i \in 1..Len(mergeResults) :
             Tree(objects, mergeResults[i]) = RefMerge(mergeBase, mergeLayer)

\* C12 witness: a merge that recursed two levels down, replaced an array
\* by an array and skipped an undefined key next to a kept sibling
C12_Witness ==
    /\ Merged
    /\ Lookup(mergeBase, <<"a", "x">>).t = "object"
    /\ Lookup(mergeLayer, <<"a", "x">>).t = "object"
    /\ Lookup(mergeBase, <<"a", "y">>).t = "array"
    /\ Lookup(mergeLayer, <<"a", "y">>).t = "array"
    /\ Lookup(mergeBase, <<"b">>).t = "number"
    /\ "b" \in DOMAIN mergeLayer.m
    /\ mergeLayer.m["b"].t = "undefined"
    /\ Lookup(Tree(objects, mergeResults[1]), <<"a", "x", "z">>) = JNum(1)
    /\ Lookup(Tree(objects, mergeResults[1]), <<"a", "x", "w">>) = JNum(2)

\* C13: the built-in defaults are deep-equal to their literal in every
\* state, whatever loadConfig calls have run; after deepMerge returns its
\* first argument is deep-equal to the value the caller passed, and a
\* second merge of the same arguments gives the same result.
C13_DeepMergeLeavesBaseIntact ==
    /\ loaderPc # "idle" => Tree(objects, DefaultsRef) = DEFAULT_CONFIG
    /\ Merged =>
         /\ Tree(objects, mergeArgs[1]) = mergeBase
         /\ \A i \in 1..Len(mergeResults) :
              Tree(objects, mergeResults[i]) = Tree(objects, mergeResults[1])

\* C13 witness: the same base merged twice with a layer that changes it
\* two levels down
C13_Witness ==
    /\ Merged
    /\ Len(mergeResults) >= 2
    /\ Lookup(mergeBase, <<"a", "x", "z">>) = JNum(1)
    /\ Lookup(mergeLayer, <<"a", "x", "w">>) = JNum(2)
    /\ Tree(objects, mergeResults[2]) # mergeBase

\* C14: with files that follow the schema, every field of the resolved
\* configuration has the value of the highest layer that sets it, in the
\* order environment, project file, user file, defaults; a project file
\* with sessionStartContext true under KW_PLUGIN_SESSION_CONTEXT=false
\* resolves to false.
C14_LayerPrecedence ==
    (loaderPc = "done" /\ FollowsSchema(userFile) /\ FollowsSchema(projectFile))
    =>
        /\ ~raised
        /\ \A p \in ConfigFields : Lookup(Resolved, p) = Winner(p)
        /\ (/\ Lookup(FileLayer(projectFile), F_sessionStartContext) = JBool(TRUE)
            /\ env.KW_PLUGIN_SESSION_CONTEXT = JStr(S_false))
           => Lookup(Resolved, F_sessionStartContext) = JBool(FALSE)

\* C14 witness: the user file sets magicKeywords and maxBackgroundTasks,
\* the project file sets sessionStartContext to true, the environment
\* sets it to false, and loadConfig has returned
C14_Witness ==
    /\ Loaded
    /\ Lookup(FileLayer(userFile), F_magicKeywords) = JBool(FALSE)
    /\ Lookup(FileLayer(userFile), F_maxBackgroundTasks) = JNum(9)
    /\ Lookup(FileLayer(projectFile), F_sessionStartContext) = JBool(TRUE)
    /\ ~projectFile.errors /\ ~userFile.errors
    /\ env.KW_PLUGIN_SESSION_CONTEXT = JStr(S_false)
    /\ env.KW_PLUGIN_MAX_BACKGROUND_TASKS = JUndef
    /\ Lookup(Resolved, F_sessionStartContext) = JBool(FALSE)
    /\ Lookup(Resolved, F_magicKeywords) = JBool(FALSE)
    /\ Lookup(Resolved, F_maxBackgroundTasks) = JNum(9)

\* C15: when a file has parse errors loadConfig does not raise and the
\* resolved configuration is the one obtained with that file absent.
C15_BrokenFileContributesNothing ==
    (loaderPc = "done" /\ (userFile.errors \/ projectFile.errors)) =>
        /\ ~raised
        /\ Resolved = ResolvedTree(WithoutBroken(userFile),
                                   WithoutBroken(projectFile), env)

\* C16: no step of loadConfig raises, whatever the two files and the
\* environment are; the value returned is an object; with both files
\* absent and neither variable set it equals the built-in defaults.
C16_LoadConfigTotal ==
    loaderPc \in {"start", "user", "project", "env", "done"} =>
        /\ ~raised
        /\ loaderPc = "done" =>
             /\ resolved.t = "object"
             /\ (/\ userFile.kind = "absent"
                 /\ projectFile.kind = "absent"
                 /\ env.KW_PLUGIN_SESSION_CONTEXT = JUndef
                 /\ env.KW_PLUGIN_MAX_BACKGROUND_TASKS = JUndef)
                => Resolved = DEFAULT_CONFIG

\* C16 witness: loadConfig returned with a user file that parses to null
\* and an unreadable project file
C16_Witness ==
    /\ Loaded
    /\ userFile.kind = "content"
    /\ userFile.value = JNull
    /\ projectFile.kind = "unreadable"
    /\ resolved.t = "object"

\* C17: the environment layer has features.sessionStartContext exactly
\* when KW_PLUGIN_SESSION_CONTEXT is set, true for the exact text "true"
\* and false otherwise; it has permissions.maxBackgroundTasks exactly when
\* KW_PLUGIN_MAX_BACKGROUND_TASKS starts with an integer, with that
\* integer; it is empty when neither is set; a value that is not
\* parseable leaves the resolved configuration as it is without the
\* variable.
C17_EnvironmentCoercion ==
    loaderPc \in {"start", "user", "project", "env", "done"} =>
        LET layer          == EnvLayer(env)
            sessionContext == env.KW_PLUGIN_SESSION_CONTEXT
            maxTasks       == env.KW_PLUGIN_MAX_BACKGROUND_TASKS
        IN  /\ IF sessionContext.t = "undefined"
               THEN "features" \notin DOMAIN layer.m
               ELSE layer.m["features"] =
                      Object("sessionStartContext" :>
                               JBool(sessionContext.s = S_true))
            /\ IF maxTasks.t # "undefined" /\ maxTasks.s \in DOMAIN IntegerTexts
               THEN layer.m["permissions"] =
                      Object("maxBackgroundTasks" :>
                               JNum(IntegerTexts[maxTasks.s]))
               ELSE "permissions" \notin DOMAIN layer.m
            /\ (sessionContext.t = "undefined" /\ maxTasks.t = "undefined")
                 => layer = Object(NoProps)
            /\ (/\ loaderPc = "done"
                /\ maxTasks.t # "undefined"
                /\ maxTasks.s \notin DOMAIN IntegerTexts)
               => /\ ~raised
                  /\ Resolved =
                       ResolvedTree(userFile, projectFile,
                           [env EXCEPT !.KW_PLUGIN_MAX_BACKGROUND_TASKS = JUndef])

\* C17 witness: KW_PLUGIN_SESSION_CONTEXT is "TRUE", the other variable is
\* not a number, the user file sets maxBackgroundTasks, and the resolved
\* configuration has false and the user file's number
C17_Witness ==
    /\ Loaded
    /\ env.KW_PLUGIN_SESSION_CONTEXT = JStr(<<"T", "R", "U", "E">>)
    /\ env.KW_PLUGIN_MAX_BACKGROUND_TASKS = JStr(<<"x">>)
    /\ Lookup(FileLayer(userFile), F_maxBackgroundTasks) = JNum(9)
    /\ projectFile.kind = "absent"
    /\ Lookup(Resolved, F_sessionStartContext) = JBool(FALSE)
    /\ Lookup(Resolved, F_maxBackgroundTasks) = JNum(9)

-----------------------------------------------------------------------------
(* Properties of the state store *)

\* a value JSON can carry: no undefined at any depth
RECURSIVE IsJson(_)
IsJson(v) ==
    CASE v.t = "undefined" -> FALSE
      [] v.t = "object"    -> \A k \in DOMAIN v.m : IsJson(v.m[k])
      [] v.t = "array"     -> \A i \in 1..Len(v.a) : IsJson(v.a[i])
      [] OTHER             -> TRUE

\* the file an operation of the history works on
TargetPath(o) ==
    IF o.op \in {"appendState", "readAppendLog"}
    THEN getStatePath(LogFileName(o.name), o.location)
    ELSE getStatePath(o.name, o.location)

SameKey(o1, o2) == o1.name = o2.name /\ o1.location = o2.location

\* the operation put text into its file
Stored(o) ==
    o.op \in {"writeState", "updateState", "appendState"} /\ o.result.flag

\* the operations before the j-th that may change the file at path
ChangesBefore(j, path) ==
    SelectSeq(SubSeq(history, 1, j - 1),
              LAMBDA o : /\ TargetPath(o) = path
                         /\ o.op \in {"writeState", "updateState",
                                      "appendState", "clearState"})

C19_ClearStateOnce ==
    \A j \in 1..Len(history) :
        history[j].op = "clearState" =>
            LET path == TargetPath(history[j])
            IN  /\ (\A i \in 1..(j - 1) :
                       ~(Stored(history[i]) /\ TargetPath(history[i]) = path))
                   => /\ ~history[j].result.flag
                      /\ ~history[j].touched
                /\ (/\ j > 1
                    /\ history[j - 1].op = "writeState"
                    /\ history[j - 1].result.flag
                    /\ SameKey(history[j - 1], history[j]))
                   => /\ history[j].result.flag
                      /\ history[j].touched
                      /\ j = Len(history) => ~Exists(disk, path)
                /\ (\E i \in 1..(j - 1) :
                       /\ history[i].op = "clearState"
                       /\ TargetPath(history[i]) = path
                       /\ \A k \in (i + 1)..(j - 1) :
                            ~(Stored(history[k]) /\ TargetPath(history[k]) = path))
                   => ~history[j].result.flag

\* C19 witness: a successful write, a clearState that returned true and a
\* second clearState that returned false
C19_Witness ==
    /\ Len(history) >= 3
    /\ history[1].op = "writeState" /\ history[1].result.flag
    /\ history[2].op = "clearState" /\ history[2].result.flag
    /\ history[3].op = "clearState" /\ ~history[3].result.flag
    /\ SameKey(history[1], history[2])
    /\ SameKey(history[2], history[3])

\* C20: when everything done to a log file before a readAppendLog is N
\* successful appendState calls of JSON values (N = 0 included), the read
\* returns those N values in call order.
C20_AppendsReadBackInOrder ==
    \A j \in 1..Len(history) :
        history[j].op = "readAppendLog" =>
            LET prior == ChangesBefore(j, TargetPath(history[j]))
            IN  (\A i \in 1..Len(prior) :
                    /\ prior[i].op = "appendState"
                    /\ prior[i].result.flag
                    /\ IsJson(prior[i].arg))
                => history[j].result.entries =
                     [i \in 1..Len(prior) |-> prior[i].arg]

\* C20 witness: two different values appended to a fresh log and read
\* back in that order
C20_Witness ==
    /\ Len(history) >= 3
    /\ history[1].op = "appendState" /\ history[1].result.flag
    /\ history[2].op = "appendState" /\ history[2].result.flag
    /\ SameKey(history[1], history[2])
    /\ history[1].arg # history[2].arg
    /\ IsJson(history[1].arg) /\ IsJson(history[2].arg)
    /\ history[3].op = "readAppendLog"
    /\ SameKey(history[2], history[3])
    /\ history[3].result.entries = <<history[1].arg, history[2].arg>>

\* C21: a readAppendLog of a file that holds only appended lines does not
\* raise, and every appended entry that is JSON is among the entries it
\* returns, whether or not another line of the file fails to parse.
C21_CorruptLineIsLineScoped ==
    \A j \in 1..Len(history) :
        history[j].op = "readAppendLog" =>
            LET prior == ChangesBefore(j, TargetPath(history[j]))
                got   == history[j].result.entries
            IN  (\A i \in 1..Len(prior) :
                    prior[i].op = "appendState" /\ prior[i].result.flag)
                => /\ ~history[j].result.raised
                   /\ \A i \in 1..Len(prior) :
                        prior[i].arg.t # "undefined" =>
                            \E k \in 1..Len(got) : got[k] = ToJSON(prior[i].arg)

\* the file name the mapping rule gives a name: the name itself when it
\* carries an extension, else the name with the operation's extension
VerbatimOrDefault(name, extension) ==
    IF Includes(name, <<".">>) THEN name ELSE name \o extension

\* C22: every operation works on <dir>/<name> with .json added (.jsonl for
\* the log operations) when the name has no extension, and on <dir>/<name>
\* itself when the name has one.
C22_NameToPath ==
    \A j \in 1..Len(history) :
        history[j].op \in {"writeState", "appendState", "readAppendLog",
                           "stateExists", "clearState"} =>
            history[j].result.path =
                [dir  |-> getStateDir(history[j].location),
                 file |-> VerbatimOrDefault(
                              history[j].name,
                              IF history[j].op \in {"appendState",
                                                    "readAppendLog"}
                              THEN S_jsonl ELSE S_json)]

\* the operations among the first n that changed the file at path
Effective(n, path) ==
    SelectSeq(ChangesBefore(n + 1, path), LAMBDA o : o.result.flag)

\* what the first n operations left in the document at path: undefined
\* when nothing was stored or the file was cleared last
LastStored(n, path) ==
    LET eff == Effective(n, path)
    IN  IF eff = <<>> THEN JUndef
        ELSE IF eff[Len(eff)].op = "clearState" THEN JUndef
        ELSE ToJSON(eff[Len(eff)].arg)

\* the j-th operation is an update that wrote its value
IsUpdate(j) == history[j].op = "updateState" /\ history[j].result.flag

\* the j-th operation is an update that read after the operation before it
\* had completed
Successive(j) == history[j].op = "updateState" /\ history[j].seen = j - 1

\* what readState returns now for the name of the j-th operation
ReadNow(j) ==
    readState(disk, dirs, readOnly, history[j].name,
              history[j].location).result

S_iteration == "iteration"

\* C23: an updateState gives its updater undefined when the name holds no
\* state at the time of the read and the stored value otherwise; the
\* value written is what the updater returned; right after a successful
\* update readState returns that value; k successive increments that
\* start from no state leave the counter at k.
C23_UpdateState ==
    /\ \A j \in 1..Len(history) :
         history[j].op = "updateState" =>
             /\ history[j].read =
                    LastStored(history[j].seen, TargetPath(history[j]))
             /\ history[j].arg = Apply(history[j].updater, history[j].read)
    /\ (history # <<>> /\ IsUpdate(Len(history))) =>
           ReadNow(Len(history)) =
               Result(TRUE, history[Len(history)].arg, <<>>,
                      history[Len(history)].result.path)
    /\ (/\ history # <<>>
        /\ \A j \in 1..Len(history) :
             /\ IsUpdate(j)
             /\ Successive(j)
             /\ history[j].updater = U_increment
             /\ SameKey(history[1], history[j]))
       => ReadNow(1).data = Object(S_iteration :> JNum(Len(history)))

\* C23 witness: an initial value stored by one update and incremented by
\* two more, each reading after the one before
C23_Witness ==
    /\ Len(history) >= 3
    /\ \A j \in 1..3 :
         IsUpdate(j) /\ Successive(j) /\ SameKey(history[1], history[j])
    /\ history[1].updater = U_init
    /\ history[1].read = JUndef
    /\ history[2].updater = U_increment
    /\ history[3].updater = U_increment
    /\ history[3].read = history[2].arg
    /\ ReadNow(3).data.m[S_iteration] = JNum(2)

\* C23 second witness: three successive increments from no state, counter 3
C23_ThreeIncrements ==
    /\ Len(history) >= 3
    /\ \A j \in 1..3 :
         /\ IsUpdate(j) /\ Successive(j) /\ SameKey(history[1], history[j])
         /\ history[j].updater = U_increment
    /\ ReadNow(3).data = Object(S_iteration :> JNum(3))

\* the directory of the j-th operation rejects writes
WriteRejected(j) == getStateDir(history[j].location) \in readOnly

\* the operations that changed the file of the j-th operation before it
Before(j) == Effective(j - 1, TargetPath(history[j]))

\* the file of the j-th operation did not exist when it ran
Absent(j) ==
    \/ Before(j) = <<>>
    \/ Before(j)[Len(Before(j))].op = "clearState"

\* the file of the j-th operation held, when it ran, appended lines of
\* which one is the text undefined, and nothing else
CorruptLines(j) ==
    /\ Before(j) # <<>>
    /\ \A i \in 1..Len(Before(j)) : Before(j)[i].op = "appendState"
    /\ \E i \in 1..Len(Before(j)) : Before(j)[i].arg.t = "undefined"

C24_ReadsDegrade ==
    /\ Len(history) = 3
    /\ history[1].op = "appendState" /\ history[1].arg.t = "undefined"
    /\ history[1].result.flag
    /\ history[2].op = "readState" /\ CorruptLines(2)
    /\ ~history[2].result.flag
    /\ history[3].op = "readAppendLog" /\ CorruptLines(3)
    /\ history[3].result.entries = <<>>

\* C25: when an updateState read its value before an earlier-completing
\* updateState of the same file wrote, what is stored after its own write
\* is its updater applied to the value it read: the other call's
\* transform is not in it.
C25_UpdateNotAtomic ==
    \A i, j \in 1..Len(history) :
        (/\ i < j
         /\ j = Len(history)
         /\ IsUpdate(i)
         /\ IsUpdate(j)
         /\ TargetPath(history[i]) = TargetPath(history[j])
         /\ history[j].seen < i)
        => ReadNow(j).data =
               Apply(history[j].updater,
                     LastStored(history[j].seen, TargetPath(history[j])))

\* C25 witness: two increments of the same name that both read the empty
\* store; both succeeded and the counter is 1
C25_LostUpdate ==
    /\ Len(history) = 2
    /\ IsUpdate(1) /\ IsUpdate(2)
    /\ SameKey(history[1], history[2])
    /\ history[1].updater = U_increment
    /\ history[2].updater = U_increment
    /\ history[1].seen = 0
    /\ history[2].seen = 0
    /\ history[1].read = JUndef
    /\ history[2].read = JUndef
    /\ ReadNow(2).data = Object(S_iteration :> JNum(1))

\* the history holds whole-document operations only, and the values
\* written are JSON values
DocumentsOnly ==
    \A j \in 1..Len(history) :
        /\ history[j].op \in {"readState", "stateExists", "writeState",
                              "updateState", "clearState"}
        /\ history[j].op = "writeState" => IsJson(history[j].arg)

\* the operations, among those that changed the disk, that belong to the
\* entry tg = <<name, location>> according to same(tg, operation)
ChangesOf(tg, same(_, _)) ==
    SelectSeq(history,
              LAMBDA o : /\ o.op \in {"writeState", "updateState", "clearState"}
                         /\ o.result.flag
                         /\ same(tg, o))

\* readState and stateExists for tg agree, and readState returns what the
\* last of the entry's operations stored: nothing when there is none or it
\* was a clear
ConsistentFor(tg, same(_, _)) ==
    LET ch   == ChangesOf(tg, same)
        r    == readState(disk, dirs, readOnly, tg[1], tg[2]).result
        e    == stateExists(disk, dirs, readOnly, tg[1], tg[2]).result
        none == ch = <<>> \/ ch[Len(ch)].op = "clearState"
    IN  /\ e.flag = r.flag
        /\ r.flag = ~none
        /\ ~none => r.data = ch[Len(ch)].arg

\* the operation has the name and the location of tg
SameNameAndLocation(tg, o) == o.name = tg[1] /\ o.location = tg[2]

\* the operation is on the file of tg: the same location, and the same
\* name once a name without an extension has been given .json
SameFile(tg, o) ==
    /\ o.location = tg[2]
    /\ VerbatimOrDefault(o.name, S_json) = VerbatimOrDefault(tg[1], S_json)

\* C30 as stated: after whole-document operations, for every name and
\* location stateExists equals readState's exists and readState returns
\* what the most recent successful write or update under that name and
\* location stored since the last clear of it; operations under another
\* name or location make no difference.
C30_StoreConsistency ==
    DocumentsOnly =>
        \A tg \in workload.targets : ConsistentFor(tg, SameNameAndLocation)

\* C30 amended: the same, with an entry identified by its file, so that a
\* name and the same name with .json appended are one entry.
C30_StoreConsistencyByFile ==
    DocumentsOnly =>
        \A tg \in workload.targets : ConsistentFor(tg, SameFile)

\* C30 witness: a value written under a name, updated under the name with
\* its extension, and another value written in the other location; each
\* location reads its own value
C30_Witness ==
    /\ Len(history) = 3
    /\ DocumentsOnly
    /\ history[1].op = "writeState" /\ history[1].result.flag
    /\ history[1].name = N_mode /\ history[1].location = "local"
    /\ IsUpdate(2)
    /\ history[2].name = N_mode_json /\ history[2].location = "local"
    /\ history[2].read = history[1].arg
    /\ history[3].op = "writeState" /\ history[3].result.flag
    /\ history[3].name = N_mode /\ history[3].location = "global"
    /\ ReadNow(1).data = history[2].arg
    /\ ReadNow(3).data = history[3].arg
    /\ history[2].arg # history[3].arg

-----------------------------------------------------------------------------
(* Further properties of the keyword engine *)

\* the occurrence of t at i has white space, or an end of s, on each side
Standalone(t, s, i) ==
    /\ i = 1 \/ IsSpaceChar(s[i - 1])
    /\ i + Len(t) - 1 = Len(s) \/ IsSpaceChar(s[i + Len(t)])

\* C26: a keyword is among the matches when one of its triggers occurs in
\* the sanitized text with white space or an end of the text on each
\* side, whatever characters the trigger is made of; and a keyword among
\* the matches has a trigger that occurs in the sanitized text character
\* by character.
C26_LiteralTriggers ==
    Detected =>
        \A i \in 1..Len(keywords.items) :
            LET id == keywords.items[i]
                kw == heap[id]
            IN  WellFormedKeyword(kw) =>
                  /\ (\E t \in TriggerStrings(kw) :
                        /\ t # <<>>
                        /\ \E o \in Occurrences(t, sanitized) :
                             Standalone(t, sanitized, o))
                     => id \in Range(matches)
                  /\ (id \in Range(matches) /\ kw.triggers.a # <<>>)
                     => \E t \in TriggerStrings(kw) :
                            Occurrences(t, sanitized) # {}

\* C28: a keyword whose trigger list, after the overrides, is empty is not
\* among the matches.
C28_EmptyTriggerListNeverMatches ==
    Detected =>
        \A i \in 1..Len(keywords.items) :
            LET id == keywords.items[i]
                kw == heap[id]
            IN  (WellFormedKeyword(kw) /\ kw.triggers.a = <<>>)
                => id \notin Range(matches)

\* C29: a keyword that has triggers and is among the matches has a trigger
\* that occurs, compared case-insensitively, as contiguous text in the
\* prompt as the user wrote it.
C29_NoManufacturedMatch ==
    Detected =>
        \A i \in 1..Len(keywords.items) :
            LET id == keywords.items[i]
                kw == heap[id]
            IN  (/\ WellFormedKeyword(kw)
                 /\ kw.triggers.a # <<>>
                 /\ id \in Range(matches))
                => \E t \in TriggerStrings(kw) : Occurrences(t, prompt) # {}

-----------------------------------------------------------------------------
(* Properties of the hook script *)

\* the script found nothing to process: no text, no JSON, no prompt
NothingToProcess ==
    \/ stdin.kind \in {"empty", "garbage", "number"}
    \/ stdin.kind = "object" /\ ~Truthy(stdin.prompt)

\* C27: the script writes nothing before it ends and exactly one payload
\* when it ends, always with continue = true; until then it is at a step
\* from which it goes on;
\* with nothing to process the payload is {continue: true} and neither
\* the modules, the configuration nor the keyword file were touched; when
\* the input cannot be used, an import fails or processKeywords throws,
\* the payload is {continue: true} as well.
C27_HookAlwaysAnswers ==
    /\ hookPc # "done" =>
         /\ stdout = <<>>
         /\ \/ hookPc \in {"read", "import", "config"}
            \/ /\ hookPc = "process"
               /\ pc \in {"gate", "load", "override", "detect", "build",
                           "done"}
    /\ hookPc = "done" =>
         /\ Len(stdout) = 1
         /\ "continue" \in DOMAIN stdout[1]
         /\ stdout[1].continue = TRUE
         /\ NothingToProcess =>
              /\ stdout[1] = NoOpPayload
              /\ imported = {}
              /\ pc = "idle"
              /\ config = ConfigUndefined
              /\ fileReads = <<>>
         /\ (\/ stdin.kind \in {"null", "unreadable"}
             \/ imported = {}
             \/ threw)
            => stdout[1] = NoOpPayload

\* C27 witness: processKeywords threw inside the script and the script
\* still wrote {continue: true}
C27_Witness ==
    /\ hookPc = "done"
    /\ imported = CompiledModules
    /\ threw
    /\ stdout = <<NoOpPayload>>

\* C27 second witness: a prompt with a keyword; the payload written is
\* the one processKeywords returned, with its side-channel content
C27_PayloadWritten ==
    /\ hookPc = "done"
    /\ ~threw
    /\ stdout = <<payload>>
    /\ HasSideChannel(payload)

====
